---- MODULE Spec2Model ----
(***************************************************************************)
(* Backtesting engine of node_kraken_bot: the simulated trading service    *)
(* (executeTrade / managePosition / monitorAndExitPositions), the replay   *)
(* loop runBacktest and the reference strategy RsiEmaConfluence.           *)
(*                                                                         *)
(* Numbers.  JavaScript numbers are modelled as exact rationals, a record  *)
(* [n, d, k] with k = "num", d > 0 and gcd(n, d) = 1.  The other kinds are *)
(* "null" (null / undefined argument), "nan" and "inf" (n being the sign). *)
(* Rounding of IEEE doubles is not modelled.                               *)
(***************************************************************************)
EXTENDS Integers, Sequences, FiniteSets, TLC

\* ------------------------------------------------------------------------
\* Bounds of the model
\* ------------------------------------------------------------------------
MaxCalls == 3
NumCandles == 2
\* the wall clock runs from 0 to MaxClock
MaxClock == 2
\* trade logs handed to the metrics directly hold up to MaxTrades orders
MaxTrades == 3
\* equity curves handed to the metrics directly hold up to MaxPoints points
MaxPoints == 3
\* calls of the trading service (live or paper) made one after the other
MaxServiceCalls == 2

\* ------------------------------------------------------------------------
\* Numbers
\* ------------------------------------------------------------------------
Abs(x) == IF x < 0 THEN -x ELSE x

RECURSIVE GCD(_, _)
GCD(a, b) == IF b = 0 THEN a ELSE GCD(b, a % b)

LCM(a, b) == (a \div GCD(a, b)) * b

\* n/d in lowest terms, g being the gcd of |n| and d
Reduced(n, d, g) == [n |-> n \div g, d |-> d \div g, k |-> "num"]
Norm(n, d) == Reduced(n, d, GCD(Abs(n), d))

R(n, d) == Norm(n, d)
Num(n) == [n |-> n, d |-> 1, k |-> "num"]
Null == [n |-> 0, d |-> 1, k |-> "null"]
NaN == [n |-> 0, d |-> 1, k |-> "nan"]
Zero == Num(0)

IsNum(x) == x.k = "num"
\* JavaScript truthiness of a number-or-null: null, undefined, NaN and 0 are falsy
Truthy(x) == x.k = "num" /\ x.n # 0

\* sums and comparisons over the common denominator L
SumOver(a, b, L) == Norm(a.n * (L \div a.d) + b.n * (L \div b.d), L)
LessOver(a, b, L) == a.n * (L \div a.d) < b.n * (L \div b.d)
RAdd(a, b) == SumOver(a, b, LCM(a.d, b.d))
RNeg(a) == [n |-> -a.n, d |-> a.d, k |-> "num"]
RSub(a, b) == RAdd(a, RNeg(b))
RMul(a, b) == Norm(a.n * b.n, a.d * b.d)
\* b is a non-zero number
RInv(b) == IF b.n < 0 THEN [n |-> -b.d, d |-> -b.n, k |-> "num"]
                      ELSE [n |-> b.d, d |-> b.n, k |-> "num"]
RDiv(a, b) == RMul(a, RInv(b))
\* comparisons of two numbers; with a NaN operand every comparison is false
RLt(a, b) == IsNum(a) /\ IsNum(b) /\ LessOver(a, b, LCM(a.d, b.d))
RLe(a, b) == IsNum(a) /\ IsNum(b) /\ ~LessOver(b, a, LCM(a.d, b.d))
RMin(a, b) == IF RLt(b, a) THEN b ELSE a
RMax(a, b) == IF RLt(a, b) THEN b ELSE a

\* m / Math.sqrt(q) for a number m and a number q > 0: the quotient is kept
\* exactly, as its square m*m/q carrying the sign of m (kind "root")
RootOfSquare(square, negative) ==
    [n |-> IF negative THEN -square.n ELSE square.n, d |-> square.d, k |-> "root"]
OverRoot(m, q) ==
    IF m = Zero THEN Zero ELSE RootOfSquare(RDiv(RMul(m, m), q), m.n < 0)

\* +Infinity and -Infinity
PosInf == [n |-> 1, d |-> 1, k |-> "inf"]
NegInf == [n |-> -1, d |-> 1, k |-> "inf"]
IsInf(x) == x.k = "inf"
\* a / b of two numbers as JavaScript divides: by zero the quotient is an
\* infinity of the sign of a, and 0 / 0 is NaN
JDiv(a, b) ==
    IF ~IsNum(a) \/ ~IsNum(b) THEN NaN
    ELSE IF b.n # 0 THEN RDiv(a, b)
    ELSE IF a.n = 0 THEN NaN
    ELSE IF a.n > 0 THEN PosInf ELSE NegInf
\* a < b over the numbers and the infinities; false with a NaN operand
JLt(a, b) ==
    IF IsInf(a) /\ IsInf(b) THEN a.n < b.n
    ELSE IF IsInf(a) THEN a.n < 0 /\ IsNum(b)
    ELSE IF IsInf(b) THEN b.n > 0 /\ IsNum(a)
    ELSE RLt(a, b)
\* Math.min and Math.max of two values: NaN when either is NaN
JMin(a, b) == IF a = NaN \/ b = NaN THEN NaN ELSE IF JLt(b, a) THEN b ELSE a
JMax(a, b) == IF a = NaN \/ b = NaN THEN NaN ELSE IF JLt(a, b) THEN b ELSE a

\* ------------------------------------------------------------------------
\* Configuration (config/default.json, read once)
\* ------------------------------------------------------------------------
maxRiskPerTrade == R(2, 100)
minimumBalance == Num(100)
defaultStopLossPercent == R(5, 100)
defaultTakeProfitPercent == R(15, 100)
initialCapital == Num(10000)

Symbols == {"BTC/USD", "ETH/USD"}
\* the symbol the strategy instance is constructed with
symbol == "BTC/USD"

\* ------------------------------------------------------------------------
\* riskManager.calculateLotSize(symbol, currentPrice, accountBalance,
\* riskPercentage); riskPercentage is Null when omitted
\* ------------------------------------------------------------------------
calculateLotSize(s, currentPrice, accountBalance, riskPercentage) ==
    LET riskPercent == IF Truthy(riskPercentage) THEN riskPercentage ELSE maxRiskPerTrade
        maxRiskAmount == RMul(accountBalance, riskPercent)
        positionSize == JDiv(maxRiskAmount, currentPrice)
        maxTradeValue == RMul(accountBalance, maxRiskPerTrade)
        calculatedSize == JMin(positionSize, JDiv(maxTradeValue, currentPrice))
    IN  IF RLt(accountBalance, minimumBalance) THEN Zero
        ELSE JMax(Zero, calculatedSize)

\* ------------------------------------------------------------------------
\* State
\* ------------------------------------------------------------------------
VARIABLES
    backtestData,      \* module state: the candles of the run (timestamp, close)
    currentBalance,    \* module state: cash balance
    tradeLog,          \* module state: simulated orders
    equityCurve,       \* module state: equity points
    holdings,          \* simulatedTradingService.holdings, 0 where absent
    positions,         \* simulatedTradingService.positions, 0 where absent
    currentPositions,  \* simulatedTradingService.currentPositions
    strategyPosition,  \* strategyInstance.position
    historicalData,    \* strategyInstance.historicalData (closes)
    pc,                \* per caller: position in initializeBacktester / runBacktest
    i,                 \* per caller: loop index of runBacktest (1-based)
    last,              \* the most recent call: arguments, result and log line
    calls,             \* number of calls made by the callers so far
    strategyInstance,  \* module state: 0 for null, else the number of the instance
    created,           \* per caller: the instance its initializeBacktester constructed
    lastInit,          \* how the most recent initializeBacktester call ended: "none",
                       \* "pending", "ok", or what failed ("load", "strategy", "fetch")
    returned,          \* what the previous runBacktest call returned its metrics from
    now,               \* the wall clock, Date.now()
    currentBalances,   \* paper trader, module state: balance per asset
    trades,            \* paper trader, module state: executed orders
    tradeExecutionMode, \* tradingService, module state: "live", "paper", "backtest"
    isDryRun,          \* tradingService, module state: config.trading.dryRun
    balanceCache,      \* tradingService, module state currentBalance: the cached
                       \* balance per asset
    placed,            \* orders handed to the exchange connector
    handlers           \* per candle event: where its handler's run() stands

vars == <<backtestData, currentBalance, tradeLog, equityCurve, holdings, positions,
          currentPositions, strategyPosition, historicalData, pc, i, last, calls,
          strategyInstance, created, lastInit, returned, now, currentBalances, trades,
          tradeExecutionMode, isDryRun, balanceCache, placed, handlers>>

\* the callers of initializeBacktester / runBacktest: each is one chain of
\* awaited calls
Callers == {1, 2}
\* what no caller touches while it calls the service or the strategy
lifecycle == <<strategyInstance, created, lastInit, returned, now>>
\* the state of the paper trader
paper == <<currentBalances, trades>>
\* the state of the trading service and of the candle-event handlers
live == <<tradeExecutionMode, isDryRun, balanceCache, placed, handlers>>

NoOrder == <<>>
NoPosition == [side |-> "none", entryPrice |-> Null, amount |-> Null,
               stopLossPrice |-> Null, takeProfitPrice |-> Null]
NoStrategyPosition == [side |-> "none", entryPrice |-> Null, amount |-> Null]

NoCall == [s |-> "", i |-> 0, side |-> "", amount |-> Null, op |-> "none",
           price |-> Null, ret |-> NoOrder, why |-> "", action |-> "none",
           attempts |-> <<>>, position |-> NoPosition, signal |-> "none",
           balance |-> Null, risk |-> Null, value |-> Null,
           caller |-> 0, raised |-> FALSE, at |-> 0, candle |-> <<>>,
           valid |-> FALSE, since |-> 0, period |-> Null, cfg |-> <<>>, ind |-> <<>>,
           curve |-> <<>>]
NoResult == <<>>

\* ------------------------------------------------------------------------
\* simulatedTradingService.executeTrade(s, side, amount, type, metadata, price)
\* ------------------------------------------------------------------------
\* lines 39-46: the explicit price when truthy.  The loop variable
\* currentCandle of runBacktest is not in scope of this closure, so
\* typeof currentCandle is 'undefined' and the call is given up (Null).
TradePrice(price) == IF Truthy(price) THEN price ELSE Null

\* line 52: amount || await calculateLotSize(s, tradePrice, currentBalance)
ResolveAmount(amount, s, tradePrice, bal) ==
    IF Truthy(amount) THEN amount ELSE calculateLotSize(s, tradePrice, bal, Null)

\* line 54
AmountRejected(calculatedAmount) == RLe(calculatedAmount, Zero)
\* variant: the funds check is missing
InsufficientFundsUnchecked(bal, tradeCost) == FALSE
\* line 69
InsufficientFunds(bal, tradeCost) == RLt(bal, tradeCost)
\* variant: the holdings check is missing
InsufficientHoldingsUnchecked(held, calculatedAmount) == FALSE
\* line 76
InsufficientHoldings(held, calculatedAmount) == RLt(held, calculatedAmount)
\* line 89
InsufficientPosition(qty, calculatedAmount) == RLt(qty, calculatedAmount)

\* variant: the id is made of the clock reading alone
SimulatedOrderClockId(log, s, side, type, calculatedAmount, tradePrice, tradeCost) ==
    [symbol |-> s, side |-> side, amount |-> calculatedAmount, price |-> tradePrice,
     type |-> type, id |-> <<now>>, status |-> "closed", datetime |-> now,
     fee |-> RMul(tradeCost, R(1, 1000))]
\* lines 99-109: id is `bt-${Date.now()}-${tradeLog.length}`, datetime the
\* clock reading
SimulatedOrder(log, s, side, type, calculatedAmount, tradePrice, tradeCost) ==
    [symbol |-> s, side |-> side, amount |-> calculatedAmount, price |-> tradePrice,
     type |-> type, id |-> <<now, Len(log)>>, status |-> "closed", datetime |-> now,
     fee |-> RMul(tradeCost, R(1, 1000))]

Outcome(ret, why, bal, hold, pos, log) ==
    [ret |-> ret, why |-> why, bal |-> bal, hold |-> hold, pos |-> pos, log |-> log]

\* lines 99-112: the order is logged and returned
Filled(order, bal, hold, pos, log) ==
    Outcome(<<order>>, "ok", bal, hold, pos, Append(log, order))

\* variant: a buy is not entered in the positions table
TrackPositionSellsOnly(s, side, type, calculatedAmount, tradePrice, tradeCost, bal1, hold1, pos, log) ==
    IF side = "sell" /\ InsufficientPosition(pos[s], calculatedAmount)
    THEN Outcome(NoOrder, "position", bal1, hold1, pos, log)
    ELSE Filled(SimulatedOrder(log, s, side, type, calculatedAmount, tradePrice, tradeCost),
                IF side = "sell" THEN RAdd(bal1, tradeCost) ELSE bal1,
                hold1,
                IF side = "sell" THEN [pos EXCEPT ![s] = RSub(@, calculatedAmount)] ELSE pos,
                log)
\* lines 84-112, with the ledger (bal1, hold1) as the first update left it:
\* a sell credits the balance once more
TrackPosition(s, side, type, calculatedAmount, tradePrice, tradeCost, bal1, hold1, pos, log) ==
    IF side = "sell" /\ InsufficientPosition(pos[s], calculatedAmount)
    THEN Outcome(NoOrder, "position", bal1, hold1, pos, log)
    ELSE Filled(SimulatedOrder(log, s, side, type, calculatedAmount, tradePrice, tradeCost),
                IF side = "sell" THEN RAdd(bal1, tradeCost) ELSE bal1,
                hold1,
                IF side = "sell" THEN [pos EXCEPT ![s] = RSub(@, calculatedAmount)]
                ELSE IF side = "buy" THEN [pos EXCEPT ![s] = RAdd(@, calculatedAmount)]
                ELSE pos,
                log)

\* lines 59-82: the checks and the first ledger update
ApplyTrade(s, side, type, calculatedAmount, tradePrice, tradeCost, bal, hold, pos, log) ==
    IF side = "buy" /\ InsufficientFunds(bal, tradeCost)
    THEN Outcome(NoOrder, "funds", bal, hold, pos, log)
    ELSE IF side = "sell" /\ InsufficientHoldings(hold[s], calculatedAmount)
    THEN Outcome(NoOrder, "holdings", bal, hold, pos, log)
    ELSE TrackPosition(s, side, type, calculatedAmount, tradePrice, tradeCost,
                       IF side = "buy" THEN RSub(bal, tradeCost)
                       ELSE IF side = "sell" THEN RAdd(bal, tradeCost) ELSE bal,
                       IF side = "buy" THEN [hold EXCEPT ![s] = RAdd(@, calculatedAmount)]
                       ELSE IF side = "sell" THEN [hold EXCEPT ![s] = RSub(@, calculatedAmount)]
                       ELSE hold,
                       pos, log)

\* lines 54-59
SizedTrade(s, side, type, calculatedAmount, tradePrice, bal, hold, pos, log) ==
    IF AmountRejected(calculatedAmount)
    THEN Outcome(NoOrder, "amount", bal, hold, pos, log)
    ELSE ApplyTrade(s, side, type, calculatedAmount, tradePrice,
                    RMul(calculatedAmount, tradePrice), bal, hold, pos, log)

\* lines 44-52
PricedTrade(s, side, amount, type, tradePrice, bal, hold, pos, log) ==
    IF tradePrice = Null
    THEN Outcome(NoOrder, "no_price", bal, hold, pos, log)
    ELSE SizedTrade(s, side, type, ResolveAmount(amount, s, tradePrice, bal), tradePrice,
                    bal, hold, pos, log)

\* the whole call, from the state (bal, hold, pos, log) to its outcome
executeTrade(s, side, amount, type, price, bal, hold, pos, log) ==
    PricedTrade(s, side, amount, type, TradePrice(price), bal, hold, pos, log)

\* ------------------------------------------------------------------------
\* simulatedTradingService.managePosition(s, side, entryPrice, amount, cfg)
\* ------------------------------------------------------------------------
\* lines 117-132
PositionFor(side, entryPrice, amount, cfg) ==
    LET stopLossPercent == IF Truthy(cfg.stopLossPercent) THEN cfg.stopLossPercent
                           ELSE defaultStopLossPercent
        takeProfitPercent == IF Truthy(cfg.takeProfitPercent) THEN cfg.takeProfitPercent
                             ELSE defaultTakeProfitPercent
    IN  IF side = "long"
        THEN [side |-> side, entryPrice |-> entryPrice, amount |-> amount,
              stopLossPrice |-> RMul(entryPrice, RSub(Num(1), stopLossPercent)),
              takeProfitPrice |-> RMul(entryPrice, RAdd(Num(1), takeProfitPercent))]
        ELSE [side |-> side, entryPrice |-> entryPrice, amount |-> amount,
              stopLossPrice |-> RMul(entryPrice, RAdd(Num(1), stopLossPercent)),
              takeProfitPrice |-> RMul(entryPrice, RSub(Num(1), takeProfitPercent))]

\* line 134: the record stored for s, whatever was stored before
managePosition(cur, s, side, entryPrice, amount, cfg) ==
    [cur EXCEPT ![s] = PositionFor(side, entryPrice, amount, cfg)]

\* ------------------------------------------------------------------------
\* simulatedTradingService.monitorAndExitPositions(s, currentPrice)
\* ------------------------------------------------------------------------
\* variant: the target is tested before the stop
ExitActionTargetFirst(position, currentPrice) ==
    IF position.side = "long"
    THEN IF RLe(position.takeProfitPrice, currentPrice) THEN "take_profit"
         ELSE IF RLe(currentPrice, position.stopLossPrice) THEN "stop_loss"
         ELSE "none"
    ELSE IF RLe(currentPrice, position.takeProfitPrice) THEN "take_profit"
         ELSE IF RLe(position.stopLossPrice, currentPrice) THEN "stop_loss"
         ELSE "none"

\* lines 141-154
ExitAction(position, currentPrice) ==
    IF position.side = "long"
    THEN IF RLe(currentPrice, position.stopLossPrice) THEN "stop_loss"
         ELSE IF RLe(position.takeProfitPrice, currentPrice) THEN "take_profit"
         ELSE "none"
    ELSE IF RLe(position.stopLossPrice, currentPrice) THEN "stop_loss"
         ELSE IF RLe(currentPrice, position.takeProfitPrice) THEN "take_profit"
         ELSE "none"

\* variant: the exit leaves the strategy's position alone
ExitPositionMonitorOnly(s, position, action, currentPrice, bal, hold, pos, log, cur, sp) ==
    IF action = "none"
    THEN [action |-> "none", o |-> Outcome(NoOrder, "", bal, hold, pos, log),
          cur |-> cur, sp |-> sp, position |-> position]
    ELSE [action |-> action,
          o |-> executeTrade(s, IF position.side = "long" THEN "sell" ELSE "buy",
                             position.amount, "market", currentPrice, bal, hold, pos, log),
          cur |-> [cur EXCEPT ![s] = NoPosition],
          sp |-> sp, position |-> position]
\* lines 156-163: the exit trade is awaited, its result is not looked at, then
\* the position is deleted and the strategy's cleared
ExitPosition(s, position, action, currentPrice, bal, hold, pos, log, cur, sp) ==
    IF action = "none"
    THEN [action |-> "none", o |-> Outcome(NoOrder, "", bal, hold, pos, log),
          cur |-> cur, sp |-> sp, position |-> position]
    ELSE [action |-> action,
          o |-> executeTrade(s, IF position.side = "long" THEN "sell" ELSE "buy",
                             position.amount, "market", currentPrice, bal, hold, pos, log),
          cur |-> [cur EXCEPT ![s] = NoPosition],
          sp |-> NoStrategyPosition, position |-> position]

\* lines 137-164: the whole call
monitorAndExitPositions(s, currentPrice, bal, hold, pos, log, cur, sp) ==
    IF cur[s] = NoPosition
    THEN [action |-> "none", o |-> Outcome(NoOrder, "", bal, hold, pos, log),
          cur |-> cur, sp |-> sp, position |-> NoPosition]
    ELSE ExitPosition(s, cur[s], ExitAction(cur[s], currentPrice), currentPrice,
                      bal, hold, pos, log, cur, sp)

\* ------------------------------------------------------------------------
\* paperTrader.executeTrade(symbol, side, amount, type, price)
\* ------------------------------------------------------------------------
\* the value read for an asset that has no entry in the balance table
Undefined == [n |-> 0, d |-> 1, k |-> "undefined"]
\* symbols handed to the paper trader and the assets they name; SOL and EUR
\* have no entry in the table
PaperSymbols == {"BTC/USD", "SOL/USD", "BTC/EUR"}
Assets == {"USD", "BTC", "ETH", "SOL", "EUR"}
\* lines 40-41: symbol.split('/')
BaseOf(sym) == IF sym = "SOL/USD" THEN "SOL" ELSE IF sym = "ETH/USD" THEN "ETH" ELSE "BTC"
QuoteOf(sym) == IF sym = "BTC/EUR" THEN "EUR" ELSE "USD"
\* lines 10-15
initialBalance ==
    [a \in Assets |-> IF a = "USD" THEN Num(10000)
                      ELSE IF a \in {"BTC", "ETH"} THEN Zero ELSE Undefined]

\* a + b and a - b of JavaScript: NaN unless both are numbers
JAdd(a, b) == IF IsNum(a) /\ IsNum(b) THEN RAdd(a, b) ELSE NaN
JSub(a, b) == IF IsNum(a) /\ IsNum(b) THEN RSub(a, b) ELSE NaN

\* lines 76-86: the order, its id being `paper-${side}-${timestamp}`
PaperOrder(sym, side, amount, type, executionPrice, tradeCost) ==
    [symbol |-> sym, side |-> side, amount |-> amount, price |-> executionPrice,
     type |-> type, id |-> <<side, now>>, status |-> "closed", datetime |-> now,
     fee |-> RMul(tradeCost, R(1, 1000))]

PaperOutcome(ret, raised, bals, trs) ==
    [ret |-> ret, raised |-> raised, bals |-> bals, trs |-> trs]

\* lines 76-90
PaperFilled(order, bals, trs) == PaperOutcome(<<order>>, FALSE, bals, Append(trs, order))

\* lines 59, 67: balance < needed, false when the balance is undefined
PaperShort(balance, needed) == RLt(balance, needed)

\* lines 56-90, from the execution price on
PaperApply(sym, side, amount, type, executionPrice, tradeCost, bals, trs) ==
    IF side = "buy"
    THEN IF PaperShort(bals[QuoteOf(sym)], tradeCost)
         THEN PaperOutcome(NoOrder, FALSE, bals, trs)
         ELSE PaperFilled(PaperOrder(sym, side, amount, type, executionPrice, tradeCost),
                          [bals EXCEPT ![QuoteOf(sym)] = JSub(@, tradeCost),
                                       ![BaseOf(sym)] = JAdd(@, amount)],
                          trs)
    ELSE IF PaperShort(bals[BaseOf(sym)], amount)
         THEN PaperOutcome(NoOrder, FALSE, bals, trs)
         ELSE PaperFilled(PaperOrder(sym, side, amount, type, executionPrice, tradeCost),
                          [bals EXCEPT ![QuoteOf(sym)] = JAdd(@, tradeCost),
                                       ![BaseOf(sym)] = JSub(@, amount)],
                          trs)

\* lines 45-54: a market order executes at the ticker's last price, a limit
\* order at its price and raises without one
paperExecuteTrade(sym, side, amount, type, price, tickerLast, bals, trs) ==
    IF type = "limit" /\ ~Truthy(price)
    THEN PaperOutcome(NoOrder, TRUE, bals, trs)
    ELSE PaperApply(sym, side, amount, type,
                    IF type = "market" THEN tickerLast ELSE price,
                    RMul(amount, IF type = "market" THEN tickerLast ELSE price),
                    bals, trs)

\* ------------------------------------------------------------------------
\* tradingService.executeTrade(symbol, side, amount, type, metadata, price)
\* and tradingService.monitorAndExitPositions(symbol, currentPrice)
\* ------------------------------------------------------------------------
\* what a call of the exchange connector gives when its promise is rejected
Rejected == [n |-> 0, d |-> 1, k |-> "rejected"]
\* what createMarketOrder / createLimitOrder can give: an order that is
\* closed, an order still open, an object without an id, a rejection
Responses == {"closed", "open", "invalid", "rejected"}
\* the price at which the exchange fills a market order
FillPrice == Num(100)
\* the candle events whose handlers may overlap
Handlers == {1, 2}
IdleHandler == [pc |-> "idle", side |-> "", entered |-> FALSE, overlaps |-> FALSE]

\* lines 14-16 and 46-48: the service of a backtest, which no action of the
\* replay touches
ServiceInBacktest ==
    /\ tradeExecutionMode = "backtest"
    /\ isDryRun = TRUE
    /\ balanceCache = [a \in Assets |-> Undefined]
    /\ placed = <<>>
    /\ handlers = [h \in Handlers |-> IdleHandler]

\* the order objects of lines 72-76 and 99, and the connector's
ServiceOrder(id, s, side, type, amount, price, status) ==
    [symbol |-> s, side |-> side, amount |-> amount, price |-> price,
     type |-> type, id |-> id, status |-> status]

\* what the connector was asked for
Request(s, side, type, amount, price) ==
    [symbol |-> s, side |-> side, amount |-> amount, price |-> price, type |-> type]

ServiceOutcome(ret, why, raised, cache, orders, bals, trs) ==
    [ret |-> ret, why |-> why, raised |-> raised, bals |-> bals, trs |-> trs,
     cache |-> cache, orders |-> orders]

\* lines 123-124: whatever the side
UpdateCache(cache, s, side, order) ==
    [cache EXCEPT ![QuoteOf(s)] = JSub(@, RMul(order.amount, order.price)),
                  ![BaseOf(s)] = JAdd(@, order.amount)]

\* lines 117-132: order is a sequence, empty when no object came back
AfterOrder(mode, s, side, order, cache, orders, bals, trs) ==
    IF order = <<>> \/ order[1].id = <<>>
    THEN ServiceOutcome(NoOrder, "invalid", FALSE, cache, orders, bals, trs)
    ELSE ServiceOutcome(order, "ok", FALSE,
                        IF mode = "live" /\ order[1].status = "closed"
                        THEN UpdateCache(cache, s, side, order[1]) ELSE cache,
                        orders, bals, trs)

\* lines 104-112: the connector is asked and answers with response; fill is
\* the price of the order that comes back
LiveOrder(s, side, type, actualAmount, price, response, fill, cache, orders, bals, trs) ==
    IF type = "limit" /\ ~Truthy(price)
    THEN ServiceOutcome(NoOrder, "error", FALSE, cache, orders, bals, trs)
    ELSE IF type \notin {"market", "limit"}
    THEN AfterOrder("live", s, side, <<>>, cache, orders, bals, trs)
    ELSE IF response = "rejected"
    THEN ServiceOutcome(NoOrder, "error", FALSE, cache,
                        Append(orders, Request(s, side, type, actualAmount, price)),
                        bals, trs)
    ELSE AfterOrder("live", s, side,
                    <<ServiceOrder(IF response = "invalid" THEN <<>>
                                   ELSE <<"kraken", Len(orders) + 1>>,
                                   s, side, type, actualAmount,
                                   IF type = "limit" THEN price ELSE fill,
                                   IF response = "open" THEN "open" ELSE "closed")>>,
                    cache, Append(orders, Request(s, side, type, actualAmount, price)),
                    bals, trs)

\* lines 113-115: the paper trader fills the order at the ticker's last price;
\* what it raises is caught by line 133
PaperTrade(s, side, type, actualAmount, price, ticker, cache, orders, bals, trs) ==
    IF ticker = Rejected
    THEN ServiceOutcome(NoOrder, "error", FALSE, cache, orders, bals, trs)
    ELSE LET o == paperExecuteTrade(s, side, actualAmount, type, price, ticker, bals, trs)
         IN  IF o.raised
             THEN ServiceOutcome(NoOrder, "error", FALSE, cache, orders, o.bals, o.trs)
             ELSE AfterOrder("paper", s, side, o.ret, cache, orders, o.bals, o.trs)

\* variant: dry run is not looked at
PlaceOrderForReal(mode, dry, s, side, type, actualAmount, price, ticker, response, cache, orders, bals, trs) ==
    IF mode = "live"
    THEN LiveOrder(s, side, type, actualAmount, price, response, FillPrice, cache, orders,
                   bals, trs)
    ELSE PaperTrade(s, side, type, actualAmount, price, ticker, cache, orders, bals, trs)
\* lines 96-137, with the amount resolved
PlaceOrder(mode, dry, s, side, type, actualAmount, price, ticker, response, cache, orders, bals, trs) ==
    IF dry /\ mode = "live"
    THEN IF ~Truthy(price) /\ ticker = Rejected
         THEN ServiceOutcome(NoOrder, "ticker", TRUE, cache, orders, bals, trs)
         ELSE ServiceOutcome(<<ServiceOrder(<<"dry-run", now>>, s, side, type, actualAmount,
                                            IF Truthy(price) THEN price ELSE ticker,
                                            "closed")>>,
                             "dry", FALSE, cache, orders, bals, trs)
    ELSE IF mode = "live"
    THEN LiveOrder(s, side, type, actualAmount, price, response, FillPrice, cache, orders,
                   bals, trs)
    ELSE PaperTrade(s, side, type, actualAmount, price, ticker, cache, orders, bals, trs)

\* lines 84-94: the lot size from the cached quote balance (live) or the paper
\* trader's; a rejected getTicker leaves the call by an exception
SizeOrder(mode, dry, s, side, type, price, ticker, response, cache, orders, bals, trs) ==
    IF ticker = Rejected
    THEN ServiceOutcome(NoOrder, "ticker", TRUE, cache, orders, bals, trs)
    ELSE LET actualAmount ==
                 calculateLotSize(s, ticker,
                                  IF mode = "live" THEN cache[QuoteOf(s)]
                                  ELSE bals[QuoteOf(s)], Null)
         IN  IF RLe(actualAmount, Zero)
             THEN ServiceOutcome(NoOrder, "amount", FALSE, cache, orders, bals, trs)
             ELSE PlaceOrder(mode, dry, s, side, type, actualAmount, price, ticker, response,
                             cache, orders, bals, trs)

\* lines 69-138.  ticker is what getTicker gives (its last price, or Rejected)
\* and response what the connector answers to an order
serviceExecuteTrade(mode, dry, s, side, amount, type, price, ticker, response, cache, orders, bals, trs) ==
    IF mode = "backtest"
    THEN ServiceOutcome(<<ServiceOrder(<<"backtest-order", now>>, s, side, type, amount,
                                       IF Truthy(price) THEN price ELSE Zero, "closed")>>,
                        "ok", FALSE, cache, orders, bals, trs)
    ELSE IF amount = Null
    THEN SizeOrder(mode, dry, s, side, type, price, ticker, response, cache, orders, bals, trs)
    ELSE PlaceOrder(mode, dry, s, side, type, amount, price, ticker, response,
                    cache, orders, bals, trs)

\* what RiskManager.monitorPositions(symbol, currentPrice) gives at line 168:
\* nothing, a triggered action, or an exception (riskManager.js exports no
\* such function)
NoTrigger == [symbol |-> "", side |-> "", amount |-> Null, action |-> "none"]
Triggered(s, side, amount, action) ==
    [symbol |-> s, side |-> side, amount |-> amount, action |-> action]
Unmonitored == [symbol |-> "", side |-> "", amount |-> Null, action |-> "raised"]

\* lines 163-181
serviceMonitorAndExitPositions(mode, dry, triggeredAction, ticker, response, cache, orders, bals, trs) ==
    IF mode = "backtest" \/ triggeredAction = NoTrigger
    THEN ServiceOutcome(NoOrder, "", FALSE, cache, orders, bals, trs)
    ELSE IF triggeredAction = Unmonitored
    THEN ServiceOutcome(NoOrder, "monitor", TRUE, cache, orders, bals, trs)
    ELSE serviceExecuteTrade(mode, dry, triggeredAction.symbol,
                             IF triggeredAction.side = "long" THEN "sell" ELSE "buy",
                             triggeredAction.amount, "market", Null, ticker, response,
                             cache, orders, bals, trs)

\* ------------------------------------------------------------------------
\* riskManager.calculateStopLoss / calculateTakeProfit(entryPrice, side, pct);
\* pct is Null when omitted
\* ------------------------------------------------------------------------
\* config.risk.stopLossPercentage and config.risk.takeProfitPercentage
stopLossPercentage == R(5, 100)
takeProfitPercentage == R(15, 100)

\* lines 86-96
calculateStopLoss(entryPrice, side, pct) ==
    LET stopLossPercent == IF Truthy(pct) THEN pct ELSE stopLossPercentage
    IN  IF side = "buy" THEN RMul(entryPrice, RSub(Num(1), stopLossPercent))
        ELSE RMul(entryPrice, RAdd(Num(1), stopLossPercent))

\* lines 105-115
calculateTakeProfit(entryPrice, side, pct) ==
    LET takeProfitPercent == IF Truthy(pct) THEN pct ELSE takeProfitPercentage
    IN  IF side = "buy" THEN RMul(entryPrice, RAdd(Num(1), takeProfitPercent))
        ELSE RMul(entryPrice, RSub(Num(1), takeProfitPercent))

\* ------------------------------------------------------------------------
\* riskManager.validateTrade(symbol, amount, price, accountBalance)
\* ------------------------------------------------------------------------
\* line 70
minTradeValue == Num(10)
\* variant: the floor on the trade value is not tested
validateTradeNoFloor(s, amount, price, accountBalance) ==
    LET tradeValue == RMul(amount, price)
        riskPercentage == JDiv(tradeValue, accountBalance)
    IN  IF JLt(maxRiskPerTrade, riskPercentage) THEN FALSE
        ELSE IF RLt(accountBalance, minimumBalance) THEN FALSE
        ELSE TRUE
\* lines 54-76: the three tests in the order of the code
validateTrade(s, amount, price, accountBalance) ==
    LET tradeValue == RMul(amount, price)
        riskPercentage == JDiv(tradeValue, accountBalance)
    IN  IF JLt(maxRiskPerTrade, riskPercentage) THEN FALSE
        ELSE IF RLt(accountBalance, minimumBalance) THEN FALSE
        ELSE IF RLt(tradeValue, minTradeValue) THEN FALSE
        ELSE TRUE

\* ------------------------------------------------------------------------
\* RsiEmaConfluence (strategies/rsiEmaConfluence.js) and StrategyInterface
\* ------------------------------------------------------------------------
\* config/strategies.json: params of the strategy
rsiPeriod == 1
slowEmaPeriod == 1
rsiOversold == Num(30)
rsiOverbought == Num(70)
\* this.config.risk handed to managePosition: no overrides
strategyRisk == [stopLossPercent |-> Null, takeProfitPercent |-> Null]
\* config trading.cooldownPeriod (one hour), in clock units of half an hour
cooldownPeriod == 2
\* constructor, lines 47-50
maxHistoricalDataSize == 2 * (IF rsiPeriod > slowEmaPeriod THEN rsiPeriod ELSE slowEmaPeriod)
\* connectors/kraken.js fetchOHLCV without an exchange: `limit` mock candles
\* around basePrice (the random offsets are not modelled)
mockClose == Num(50000)

\* StrategyInterface.setPosition
setPosition(side, entryPrice, amount) ==
    [side |-> side, entryPrice |-> entryPrice, amount |-> amount]

\* what a null candle leaves in the window: reading its close raises
NullEntry == [n |-> 0, d |-> 1, k |-> "nullcandle"]
\* line 88: historicalData.map(c => c.close) raises a TypeError on a null element
MapRaises(hist) == \E j \in 1..Len(hist) : hist[j] = NullEntry

\* lines 83-86 of run: push, then shift when over the window
PushCandle(hist, close) ==
    IF Len(hist) + 1 > maxHistoricalDataSize THEN Tail(Append(hist, close))
    ELSE Append(hist, close)

\* lines 115-116, 138-139; a comparison with NaN is false
rsiOversoldCross(ind) == RLe(ind.prevRSI, rsiOversold) /\ RLt(rsiOversold, ind.currentRSI)
\* variant: the fast EMA is above the slow one, whatever the previous values
emaCrossUpNoPrevious(ind) == RLt(ind.currentSlowEma, ind.currentFastEma)
emaCrossUp(ind) ==
    RLe(ind.prevFastEma, ind.prevSlowEma) /\ RLt(ind.currentSlowEma, ind.currentFastEma)
rsiOverboughtCross(ind) ==
    RLe(rsiOverbought, ind.prevRSI) /\ RLt(ind.currentRSI, rsiOverbought)
emaCrossDown(ind) ==
    RLe(ind.prevSlowEma, ind.prevFastEma) /\ RLt(ind.currentFastEma, ind.currentSlowEma)

\* variant: the guard does not look at the position
MayEnterAlways(position) == TRUE
\* lines 118, 141: the guard of an entry
MayEnter(position) == position = NoStrategyPosition

\* lines 128-131 / 151-154: what follows the order o of an entry, from the
\* state st reached so far (a record [o, cur, sp, attempts])
AfterEntry(st, o, side, posSide) ==
    IF o.ret = NoOrder
    THEN [st EXCEPT !.o = o, !.attempts = Append(@, side)]
    ELSE [o |-> o,
          sp |-> setPosition(posSide, o.ret[1].price, o.ret[1].amount),
          cur |-> managePosition(st.cur, symbol, posSide, o.ret[1].price,
                                 o.ret[1].amount, strategyRisk),
          attempts |-> Append(st.attempts, side)]

\* lines 118-135 / 141-158: one entry branch; side is the order side, posSide
\* the position side.  The amount is null and no price is passed.
EntryBranch(st, signal, side, posSide) ==
    IF ~(MayEnter(st.sp) /\ signal) THEN st
    ELSE AfterEntry(st, executeTrade(symbol, side, Null, "market", Null,
                                     st.o.bal, st.o.hold, st.o.pos, st.o.log),
                    side, posSide)

SignalOf(ind) ==
    IF rsiOversoldCross(ind) /\ emaCrossUp(ind) THEN "long"
    ELSE IF rsiOverboughtCross(ind) /\ emaCrossDown(ind) THEN "short"
    ELSE "none"

\* lines 95-158: the decision, on the state st0 at entry of run
Decide(st0, ind) ==
    IF ~IsNum(ind.currentRSI) \/ ~IsNum(ind.currentFastEma) \/ ~IsNum(ind.currentSlowEma)
    THEN [st |-> st0, signal |-> "none"]
    ELSE [st |-> EntryBranch(EntryBranch(st0, rsiOversoldCross(ind) /\ emaCrossUp(ind),
                                         "buy", "long"),
                             rsiOverboughtCross(ind) /\ emaCrossDown(ind), "sell", "short"),
          signal |-> SignalOf(ind)]

\* run(newCandle), h being the window after the push: ind are the last two
\* values of each indicator series as the indicator library returned them
WithHistory(h, decision) ==
    [hist |-> h, st |-> decision.st, signal |-> decision.signal, raised |-> FALSE]
\* variant: a NaN indicator value raises instead of skipping the decision
RunOnRaisingOnNaN(h, st0, ind) ==
    IF MapRaises(h) \/ ~IsNum(ind.currentRSI)
    THEN [hist |-> h, st |-> st0, signal |-> "none", raised |-> TRUE]
    ELSE IF Len(h) < maxHistoricalDataSize
    THEN [hist |-> h, st |-> st0, signal |-> "none", raised |-> FALSE]
    ELSE WithHistory(h, Decide(st0, ind))
RunOn(h, st0, ind) ==
    IF MapRaises(h) THEN [hist |-> h, st |-> st0, signal |-> "none", raised |-> TRUE]
    ELSE IF Len(h) < maxHistoricalDataSize
    THEN [hist |-> h, st |-> st0, signal |-> "none", raised |-> FALSE]
    ELSE WithHistory(h, Decide(st0, ind))

run(close, ind, bal, hold, pos, log, cur, sp, hist) ==
    RunOn(PushCandle(hist, close),
          [o |-> Outcome(NoOrder, "", bal, hold, pos, log), cur |-> cur, sp |-> sp,
           attempts |-> <<>>],
          ind)

\* ------------------------------------------------------------------------
\* The strategy on the trading service (live and paper mode)
\* ------------------------------------------------------------------------
\* StrategyInterface.exitPosition(side), strategyInterface.js lines 45-66: o is
\* what tradingService.executeTrade gives for the exit order
ExitResult(sp, attempted, o) == [sp |-> sp, o |-> o, attempted |-> attempted]

\* variant: the position is cleared whatever became of the exit order
AfterExitAlwaysCleared(sp, o) == ExitResult(NoStrategyPosition, TRUE, o)
\* lines 58-65: reading order.id of a null order raises inside the try, as
\* does a rejected executeTrade; the catch logs and the position stays
AfterExit(sp, o) ==
    ExitResult(IF o.raised \/ o.ret = NoOrder THEN sp ELSE NoStrategyPosition, TRUE, o)

exitPosition(side, sp, mode, dry, ticker, response, cache, orders, bals, trs) ==
    IF sp = NoStrategyPosition \/ sp.side # side
    THEN ExitResult(sp, FALSE, ServiceOutcome(NoOrder, "no_position", FALSE, cache, orders,
                                              bals, trs))
    ELSE AfterExit(sp, serviceExecuteTrade(mode, dry, symbol,
                                           IF side = "long" THEN "sell" ELSE "buy",
                                           sp.amount, "market", Null, ticker, response,
                                           cache, orders, bals, trs))

\* RsiEmaConfluence.run up to the await of executeTrade (part_004 lines
\* 83-120 / 141-143): the side of the entry order it asks for, "" when it
\* returns without one.  The two signals exclude each other (the fast EMA is
\* above or below the slow one), so a run asks for one entry at most.
EntrySide(h, sp, ind) ==
    IF MapRaises(h) \/ Len(h) < maxHistoricalDataSize THEN ""
    ELSE IF ~IsNum(ind.currentRSI) \/ ~IsNum(ind.currentFastEma) \/ ~IsNum(ind.currentSlowEma)
    THEN ""
    ELSE IF MayEnter(sp) /\ rsiOversoldCross(ind) /\ emaCrossUp(ind) THEN "buy"
    ELSE IF MayEnter(sp) /\ rsiOverboughtCross(ind) /\ emaCrossDown(ind) THEN "sell"
    ELSE ""

\* lines 128-131 / 151-154: the position after the awaited order o came back
EnteredPosition(sp, side, o) ==
    IF o.raised \/ o.ret = NoOrder \/ o.ret[1].id = <<>> THEN sp
    ELSE setPosition(IF side = "buy" THEN "long" ELSE "short",
                     o.ret[1].price, o.ret[1].amount)

\* ------------------------------------------------------------------------
\* Inputs
\* ------------------------------------------------------------------------
Sides == {"buy", "sell"}
PositionSides == {"long", "short"}
\* amounts a caller passes: none, zero, negative, affordable, not affordable
Amounts == {Null, Num(0), Num(-1), Num(1), Num(200)}
\* prices a caller passes: none, zero, positive
Prices == {Null, Num(0), Num(100)}
\* closes of the historical candles
Closes == {Num(0), Num(90), Num(100), Num(120)}
EntryPrices == {Num(0), Num(100)}
PositionAmounts == {Num(1), Num(200)}
RiskConfigs == {strategyRisk,
                [stopLossPercent |-> R(1, 10), takeProfitPercent |-> R(1, 5)],
                [stopLossPercent |-> R(1, 10), takeProfitPercent |-> R(-1, 5)]}
\* last two values of the RSI and EMA series
RSIValues == {Num(25), Num(35), Num(75), NaN}
EMAValues == {Num(1), Num(2)}
Indicators ==
    [prevRSI : RSIValues, currentRSI : RSIValues,
     prevFastEma : EMAValues, currentFastEma : EMAValues \cup {NaN},
     prevSlowEma : EMAValues, currentSlowEma : EMAValues \cup {NaN}]

\* arguments of calculateLotSize
LotPrices == {Num(0), Num(50), Num(100), Num(50000)}
LotBalances == {Num(-100), Num(0), Num(50), R(1999, 20), Num(100), Num(101), Num(10000)}
LotRisks == {Null, Num(0), R(-1, 100), R(1, 100), R(2, 100), R(5, 100)}

\* trade logs handed to calculateAll: orders of one unit at 100 or 120
LoggedOrder(side, price) ==
    [symbol |-> symbol, side |-> side, amount |-> Num(1), price |-> price,
     type |-> "market", id |-> <<>>, status |-> "closed", datetime |-> 0,
     fee |-> RMul(price, R(1, 1000))]
LoggedOrders == {LoggedOrder(side, price) : side \in Sides, price \in {Num(100), Num(120)}}
TradeLogs == UNION {[1..n -> LoggedOrders] : n \in 0..MaxTrades}

\* equity curves handed to the metrics: balances below, at and above zero
CurveBalances == {Num(-100), Num(0), Num(50), Num(100), Num(200)}
CurvePoint(t, balance) == [balance |-> balance, timestamp |-> t]
Curves ==
    UNION {{[t \in 1..n |-> CurvePoint(t, b[t])] : b \in [1..n -> CurveBalances]} :
               n \in 0..MaxPoints}

\* risk-free rates per step: none, the 0.5% calculateAll passes, and a rate
\* equal to a doubling per step
SharpeRates == {Num(0), R(1, 200), Num(1)}

\* arguments of the paper trader's executeTrade, and the ticker's last price
\* (connectors/kraken.js getTicker: 50050 without an exchange)
PaperAmounts == {Num(1), Num(200)}
PaperPrices == {Null, Num(100)}
OrderTypes == {"market", "limit"}
TickerLasts == {Num(100), Num(50050)}

\* arguments of the trading service's executeTrade, what getTicker gives, and
\* what monitorPositions reports
ServiceAmounts == {Null, Num(1)}
Tickers == {Num(100), Rejected}
Triggers ==
    {NoTrigger, Unmonitored}
    \cup {Triggered(s, side, Num(1), action) :
              s \in Symbols, side \in PositionSides, action \in {"stop_loss"}}
\* the balances the exchange reports when the service starts in live mode
LiveBalances ==
    [a \in Assets |-> IF a = "USD" THEN Num(10000)
                      ELSE IF a = "BTC" THEN Num(1)
                      ELSE IF a = "ETH" THEN Zero ELSE Undefined]

\* arguments of calculateStopLoss and calculateTakeProfit: the side in the
\* words of a position and in those of an order
StopSides == {"long", "short", "buy", "sell"}
StopEntryPrices == {Num(0), Num(100), Num(50000)}
StopPercents == {Null, Num(0), R(5, 100), R(1, 2), Num(1)}

\* arguments of validateCooldown: the time of the last trade, and the period
\* (omitted, none, shorter than, equal to and longer than the configured one)
TradeTimes == 0..MaxClock
CooldownPeriods == {Null, Num(0), Num(1), Num(2), Num(3)}

\* arguments of validateTrade: the value amount*price is 0, 5, 10, 200, 5000 or
\* 50000 at the price 50000, the balance below, at and above minimumBalance
TradeAmounts == {Num(0), R(1, 10000), R(1, 5000), R(1, 250), R(1, 10), Num(1)}
TradePrices == {Num(50), Num(50000)}
TradeBalances == {Num(-100), Num(0), Num(50), Num(100), Num(500), Num(10000)}

Candle(t, close) == [close |-> close, timestamp |-> t]

\* what the date filter leaves of the data file: nothing, or all its candles
DataOf(closes) == [t \in 1..NumCandles |-> Candle(t, closes[t])]
FilteredData == {<<>>, DataOf([t \in 1..NumCandles |-> Num(100)]),
                 DataOf([t \in 1..NumCandles |-> Num(120)])}
Fetched == {"data", "empty", "error"}

\* candles handed to run directly: a well-formed one, one whose high is under
\* its open and whose low is over it, one with only an open, and null
OHLC(open, high, low, close) ==
    [close |-> close, open |-> open, high |-> high, low |-> low, kind |-> "object"]
NullCandle == [close |-> Null, open |-> Null, high |-> Null, low |-> Null, kind |-> "null"]
RunCandles == {OHLC(Num(100), Num(120), Num(90), Num(100)),
               OHLC(Num(100), Num(90), Num(120), Num(120)),
               OHLC(Num(100), Null, Null, Null),
               NullCandle}

\* ------------------------------------------------------------------------
\* Initial state: initializeBacktester has completed on a non-empty data file
\* ------------------------------------------------------------------------
Init ==
    /\ backtestData \in {[t \in 1..NumCandles |-> Candle(t, c[t])] : c \in [1..NumCandles -> Closes]}
    /\ currentBalance = initialCapital
    /\ tradeLog = <<>>
    /\ equityCurve = <<>>
    /\ holdings = [s \in Symbols |-> Zero]
    /\ positions = [s \in Symbols |-> Zero]
    /\ currentPositions = [s \in Symbols |-> NoPosition]
    /\ strategyPosition = NoStrategyPosition
    /\ historicalData = [j \in 1..(maxHistoricalDataSize + 10) |-> mockClose]
    /\ pc = [c \in Callers |-> "idle"]
    /\ i = [c \in Callers |-> 0]
    /\ last = NoCall
    /\ calls = 0
    /\ strategyInstance = 1
    /\ created = [c \in Callers |-> 0]
    /\ lastInit = "ok"
    /\ returned = NoResult
    /\ now = 0
    /\ currentBalances = initialBalance
    /\ trades = <<>>
    /\ ServiceInBacktest

\* the module as loaded, before any initializeBacktester call (lines 14-19)
InitFresh ==
    /\ backtestData = <<>>
    /\ currentBalance = initialCapital
    /\ tradeLog = <<>>
    /\ equityCurve = <<>>
    /\ holdings = [s \in Symbols |-> Zero]
    /\ positions = [s \in Symbols |-> Zero]
    /\ currentPositions = [s \in Symbols |-> NoPosition]
    /\ strategyPosition = NoStrategyPosition
    /\ historicalData = <<>>
    /\ pc = [c \in Callers |-> "idle"]
    /\ i = [c \in Callers |-> 0]
    /\ last = NoCall
    /\ calls = 0
    /\ strategyInstance = 0
    /\ created = [c \in Callers |-> 0]
    /\ lastInit = "none"
    /\ returned = NoResult
    /\ now = 0
    /\ currentBalances = initialBalance
    /\ trades = <<>>
    /\ ServiceInBacktest

\* ------------------------------------------------------------------------
\* Calls made on the service and the strategy between runs
\* ------------------------------------------------------------------------
MayCall == (\A c \in Callers : pc[c] = "idle") /\ calls < MaxCalls

CallExecuteTrade(s, side, amount, price) ==
    /\ MayCall
    /\ \E o \in {executeTrade(s, side, amount, "market", price,
                              currentBalance, holdings, positions, tradeLog)} :
           /\ currentBalance' = o.bal
           /\ holdings' = o.hold
           /\ positions' = o.pos
           /\ tradeLog' = o.log
           /\ last' = [NoCall EXCEPT !.op = "executeTrade", !.s = s, !.side = side,
                                     !.amount = amount, !.price = price,
                                     !.ret = o.ret, !.why = o.why]
    /\ calls' = calls + 1
    /\ UNCHANGED <<backtestData, equityCurve, currentPositions, strategyPosition,
                   historicalData, pc, i, lifecycle, paper, live>>

CallManagePosition(s, side, entryPrice, amount, cfg) ==
    /\ MayCall
    /\ currentPositions' = managePosition(currentPositions, s, side, entryPrice, amount, cfg)
    /\ last' = [NoCall EXCEPT !.op = "managePosition", !.s = s, !.side = side,
                              !.amount = amount, !.price = entryPrice, !.cfg = <<cfg>>]
    /\ calls' = calls + 1
    /\ UNCHANGED <<backtestData, currentBalance, tradeLog, equityCurve, holdings, positions,
                   strategyPosition, historicalData, pc, i, lifecycle, paper, live>>

CallMonitor(s, currentPrice) ==
    /\ MayCall
    /\ \E m \in {monitorAndExitPositions(s, currentPrice, currentBalance, holdings,
                                         positions, tradeLog, currentPositions,
                                         strategyPosition)} :
           /\ currentBalance' = m.o.bal
           /\ holdings' = m.o.hold
           /\ positions' = m.o.pos
           /\ tradeLog' = m.o.log
           /\ currentPositions' = m.cur
           /\ strategyPosition' = m.sp
           /\ last' = [NoCall EXCEPT !.op = "monitorAndExitPositions", !.s = s,
                                     !.price = currentPrice, !.action = m.action,
                                     !.ret = m.o.ret, !.why = m.o.why,
                                     !.position = m.position]
    /\ calls' = calls + 1
    /\ UNCHANGED <<backtestData, equityCurve, historicalData, pc, i, lifecycle, paper, live>>

CallSetPosition(side, entryPrice, amount) ==
    /\ MayCall
    /\ strategyPosition' = setPosition(side, entryPrice, amount)
    /\ last' = [NoCall EXCEPT !.op = "setPosition", !.side = side, !.amount = amount,
                              !.price = entryPrice]
    /\ calls' = calls + 1
    /\ UNCHANGED <<backtestData, currentBalance, tradeLog, equityCurve, holdings, positions,
                   currentPositions, historicalData, pc, i, lifecycle, paper, live>>

CallCalculateLotSize(s, currentPrice, accountBalance, riskPercentage) ==
    /\ MayCall
    /\ last' = [NoCall EXCEPT !.op = "calculateLotSize", !.s = s, !.price = currentPrice,
                              !.balance = accountBalance, !.risk = riskPercentage,
                              !.value = calculateLotSize(s, currentPrice, accountBalance,
                                                         riskPercentage)]
    /\ calls' = calls + 1
    /\ UNCHANGED <<backtestData, currentBalance, tradeLog, equityCurve, holdings, positions,
                   currentPositions, strategyPosition, historicalData, pc, i, lifecycle, paper, live>>

CallValidateTrade(s, amount, price, accountBalance) ==
    /\ MayCall
    /\ last' = [NoCall EXCEPT !.op = "validateTrade", !.s = s, !.amount = amount,
                              !.price = price, !.balance = accountBalance,
                              !.valid = validateTrade(s, amount, price, accountBalance)]
    /\ calls' = calls + 1
    /\ UNCHANGED <<backtestData, currentBalance, tradeLog, equityCurve, holdings, positions,
                   currentPositions, strategyPosition, historicalData, pc, i, lifecycle, paper, live>>

CallPaperExecuteTrade(sym, side, amount, type, price, tickerLast) ==
    /\ MayCall
    /\ \E o \in {paperExecuteTrade(sym, side, amount, type, price, tickerLast,
                                   currentBalances, trades)} :
           /\ currentBalances' = o.bals
           /\ trades' = o.trs
           /\ last' = [NoCall EXCEPT !.op = "paperExecuteTrade", !.s = sym, !.side = side,
                                     !.amount = amount,
                                     !.price = IF type = "market" THEN tickerLast ELSE price,
                                     !.ret = o.ret, !.raised = o.raised]
    /\ calls' = calls + 1
    /\ UNCHANGED <<backtestData, currentBalance, tradeLog, equityCurve, holdings, positions,
                   currentPositions, strategyPosition, historicalData, pc, i, lifecycle,
                   live>>

\* the trading service is called while no replay runs
MayCallService == MayCall /\ calls < MaxServiceCalls

\* a call of the trading service ends with outcome o
ServiceReturns(o) ==
    /\ balanceCache' = o.cache
    /\ placed' = o.orders
    /\ currentBalances' = o.bals
    /\ trades' = o.trs

CallServiceExecuteTrade(s, side, amount, type, price, ticker, response) ==
    /\ MayCallService
    /\ \E o \in {serviceExecuteTrade(tradeExecutionMode, isDryRun, s, side, amount, type,
                                     price, ticker, response, balanceCache, placed,
                                     currentBalances, trades)} :
           /\ ServiceReturns(o)
           /\ last' = [NoCall EXCEPT !.op = "service.executeTrade", !.s = s, !.side = side,
                                     !.amount = amount, !.price = price,
                                     !.ret = o.ret, !.why = o.why, !.raised = o.raised]
    /\ calls' = calls + 1
    /\ UNCHANGED <<backtestData, currentBalance, tradeLog, equityCurve, holdings, positions,
                   currentPositions, strategyPosition, historicalData, pc, i, lifecycle,
                   tradeExecutionMode, isDryRun, handlers>>

CallServiceMonitor(triggeredAction, ticker, response) ==
    /\ MayCallService
    /\ \E o \in {serviceMonitorAndExitPositions(tradeExecutionMode, isDryRun,
                                                triggeredAction, ticker, response,
                                                balanceCache, placed, currentBalances,
                                                trades)} :
           /\ ServiceReturns(o)
           /\ last' = [NoCall EXCEPT !.op = "service.monitorAndExitPositions",
                                     !.s = triggeredAction.symbol,
                                     !.side = triggeredAction.side,
                                     !.amount = triggeredAction.amount,
                                     !.action = triggeredAction.action,
                                     !.ret = o.ret, !.why = o.why, !.raised = o.raised]
    /\ calls' = calls + 1
    /\ UNCHANGED <<backtestData, currentBalance, tradeLog, equityCurve, holdings, positions,
                   currentPositions, strategyPosition, historicalData, pc, i, lifecycle,
                   tradeExecutionMode, isDryRun, handlers>>

CallCalculateStopLoss(entryPrice, side, pct) ==
    /\ MayCall
    /\ last' = [NoCall EXCEPT !.op = "calculateStopLoss", !.side = side,
                              !.price = entryPrice, !.risk = pct,
                              !.value = calculateStopLoss(entryPrice, side, pct)]
    /\ calls' = calls + 1
    /\ UNCHANGED <<backtestData, currentBalance, tradeLog, equityCurve, holdings, positions,
                   currentPositions, strategyPosition, historicalData, pc, i, lifecycle, paper, live>>

CallCalculateTakeProfit(entryPrice, side, pct) ==
    /\ MayCall
    /\ last' = [NoCall EXCEPT !.op = "calculateTakeProfit", !.side = side,
                              !.price = entryPrice, !.risk = pct,
                              !.value = calculateTakeProfit(entryPrice, side, pct)]
    /\ calls' = calls + 1
    /\ UNCHANGED <<backtestData, currentBalance, tradeLog, equityCurve, holdings, positions,
                   currentPositions, strategyPosition, historicalData, pc, i, lifecycle, paper, live>>

\* riskManager.validateCooldown(lastTradeTime, cooldownPeriod), lines 191-196;
\* period is Null when omitted
validateCooldown(lastTradeTime, period) ==
    LET cooldown == IF Truthy(period) THEN period.n ELSE cooldownPeriod
        timeSinceLastTrade == now - lastTradeTime
    IN  timeSinceLastTrade >= cooldown

CallValidateCooldown(lastTradeTime, period) ==
    /\ MayCall
    /\ last' = [NoCall EXCEPT !.op = "validateCooldown", !.since = lastTradeTime,
                              !.period = period, !.at = now,
                              !.valid = validateCooldown(lastTradeTime, period)]
    /\ calls' = calls + 1
    /\ UNCHANGED <<backtestData, currentBalance, tradeLog, equityCurve, holdings, positions,
                   currentPositions, strategyPosition, historicalData, pc, i, lifecycle, paper, live>>

\* strategy.run(candle) called directly
CloseOf(candle) == IF candle.kind = "null" THEN NullEntry ELSE candle.close

RunCall(candle, ind, trace) ==
    /\ MayCall
    /\ \E r \in {run(CloseOf(candle), ind, currentBalance, holdings, positions, tradeLog,
                     currentPositions, strategyPosition, historicalData)} :
           /\ historicalData' = r.hist
           /\ currentBalance' = r.st.o.bal
           /\ holdings' = r.st.o.hold
           /\ positions' = r.st.o.pos
           /\ tradeLog' = r.st.o.log
           /\ currentPositions' = r.st.cur
           /\ strategyPosition' = r.st.sp
           /\ last' = [NoCall EXCEPT !.op = "run", !.s = symbol, !.candle = <<candle>>,
                                     !.attempts = r.st.attempts, !.signal = r.signal,
                                     !.ret = r.st.o.ret, !.why = r.st.o.why,
                                     !.raised = r.raised, !.at = now,
                                     !.ind = trace]
    /\ calls' = calls + 1
    /\ UNCHANGED <<backtestData, equityCurve, pc, i, lifecycle, paper, live>>
CallRun(candle, ind) == RunCall(candle, ind, <<>>)
\* the same call, the indicator values it worked on being kept with its record
CallRunOn(candle, ind) == RunCall(candle, ind, <<ind>>)

\* exitPosition is called between candle events
CallExitPosition(side, ticker, response) ==
    /\ MayCallService
    /\ \A h \in Handlers : handlers[h].pc # "awaiting"
    /\ \E r \in {exitPosition(side, strategyPosition, tradeExecutionMode, isDryRun, ticker,
                              response, balanceCache, placed, currentBalances, trades)} :
           /\ ServiceReturns(r.o)
           /\ strategyPosition' = r.sp
           /\ last' = [NoCall EXCEPT !.op = "exitPosition", !.s = symbol, !.side = side,
                                     !.ret = r.o.ret, !.why = r.o.why,
                                     !.attempts = IF r.attempted THEN <<"exit">> ELSE <<>>,
                                     !.raised = FALSE]
    /\ calls' = calls + 1
    /\ UNCHANGED <<backtestData, currentBalance, tradeLog, equityCurve, holdings, positions,
                   currentPositions, historicalData, pc, i, lifecycle,
                   tradeExecutionMode, isDryRun, handlers>>

\* the handler of a candle event calls run(candle), which runs up to its
\* await of executeTrade or to its end (part_003 lines 82-86); it overlaps
\* when another handler's run is suspended at that moment
HandlerStart(h, candle, ind) ==
    /\ handlers[h].pc = "idle"
    /\ historicalData' = PushCandle(historicalData, CloseOf(candle))
    /\ \E side \in {EntrySide(historicalData', strategyPosition, ind)} :
           /\ handlers' = [handlers EXCEPT ![h] =
                              [pc |-> IF side = "" THEN "done" ELSE "awaiting",
                               side |-> side, entered |-> FALSE,
                               overlaps |-> \E g \in Handlers : handlers[g].pc = "awaiting"]]
           /\ last' = [NoCall EXCEPT !.op = "run.start", !.s = symbol, !.side = side,
                                     !.caller = h]
    /\ UNCHANGED <<backtestData, currentBalance, tradeLog, equityCurve, holdings, positions,
                   currentPositions, strategyPosition, pc, i, calls, lifecycle, paper,
                   tradeExecutionMode, isDryRun, balanceCache, placed>>

\* the awaited executeTrade completes and run goes on to its end
HandlerResume(h, ticker, response) ==
    /\ handlers[h].pc = "awaiting"
    /\ \E o \in {serviceExecuteTrade(tradeExecutionMode, isDryRun, symbol, handlers[h].side,
                                     Null, "market", Null, ticker, response, balanceCache,
                                     placed, currentBalances, trades)} :
           /\ ServiceReturns(o)
           /\ strategyPosition' = EnteredPosition(strategyPosition, handlers[h].side, o)
           /\ handlers' = [handlers EXCEPT ![h] =
                              [pc |-> "done", side |-> handlers[h].side,
                               entered |-> ~o.raised /\ o.ret # NoOrder,
                               overlaps |-> handlers[h].overlaps]]
           /\ last' = [NoCall EXCEPT !.op = "run.resume", !.s = symbol,
                                     !.side = handlers[h].side, !.caller = h,
                                     !.ret = o.ret, !.why = o.why]
    /\ UNCHANGED <<backtestData, currentBalance, tradeLog, equityCurve, holdings, positions,
                   currentPositions, historicalData, pc, i, calls, lifecycle,
                   tradeExecutionMode, isDryRun>>

\* the wall clock advances
Tick ==
    /\ now < MaxClock
    /\ now' = now + 1
    /\ UNCHANGED <<backtestData, currentBalance, tradeLog, equityCurve, holdings, positions,
                   currentPositions, strategyPosition, historicalData, pc, i, last, calls,
                   strategyInstance, created, lastInit, returned, paper, live>>

\* ------------------------------------------------------------------------
\* initializeBacktester
\* ------------------------------------------------------------------------
\* lines 30-198, up to the await of strategyInstance.initialize(): data is what
\* the date filter leaves of the file, loadOk whether the file was read and
\* parsed, known whether the registry has the strategy name.  No caller starts
\* it while a replay is under way.
InitStart(c, data, loadOk, known) ==
    /\ calls < MaxCalls
    /\ pc[c] = "idle"
    /\ \A d \in Callers : pc[d] \in {"idle", "initializing"}
    /\ calls' = calls + 1
    /\ IF ~loadOk
       THEN \* line 190
            /\ last' = [NoCall EXCEPT !.op = "initializeBacktester", !.caller = c,
                                      !.raised = TRUE, !.why = "load"]
            /\ lastInit' = "load"
            /\ UNCHANGED <<backtestData, strategyInstance, created, holdings, positions,
                           currentPositions, strategyPosition, historicalData, pc>>
       ELSE IF ~known
       THEN \* lines 175-180, 195
            /\ backtestData' = data
            /\ last' = [NoCall EXCEPT !.op = "initializeBacktester", !.caller = c,
                                      !.raised = TRUE, !.why = "strategy"]
            /\ lastInit' = "strategy"
            /\ UNCHANGED <<strategyInstance, created, holdings, positions,
                           currentPositions, strategyPosition, historicalData, pc>>
       ELSE \* lines 175-180, 197 and the constructors
            /\ backtestData' = data
            /\ strategyInstance' = calls + 2
            /\ created' = [created EXCEPT ![c] = calls + 2]
            /\ holdings' = [s \in Symbols |-> Zero]
            /\ positions' = [s \in Symbols |-> Zero]
            /\ currentPositions' = [s \in Symbols |-> NoPosition]
            /\ strategyPosition' = NoStrategyPosition
            /\ historicalData' = <<>>
            /\ pc' = [pc EXCEPT ![c] = "initializing"]
            /\ lastInit' = "pending"
            /\ last' = [NoCall EXCEPT !.op = "initializeBacktester", !.caller = c]
    /\ UNCHANGED <<currentBalance, tradeLog, equityCurve, i, returned, now, paper, live>>

\* line 198 and RsiEmaConfluence.initialize, lines 62-74: fetched is what
\* fetchOHLCV gave ("data", "empty") or that it raised ("error"); the candles
\* go to the instance this call constructed
InitFinish(c, fetched) ==
    /\ pc[c] = "initializing"
    /\ pc' = [pc EXCEPT ![c] = "idle"]
    /\ historicalData' =
         IF fetched = "data" /\ created[c] = strategyInstance
         THEN [j \in 1..(maxHistoricalDataSize + 10) |-> mockClose]
         ELSE historicalData
    /\ lastInit' = IF fetched = "error" THEN "fetch" ELSE "ok"
    /\ last' = [NoCall EXCEPT !.op = "initialized", !.caller = c,
                              !.raised = (fetched = "error")]
    /\ UNCHANGED <<backtestData, currentBalance, tradeLog, equityCurve, holdings, positions,
                   currentPositions, strategyPosition, i, calls, strategyInstance, created,
                   returned, now, paper, live>>

\* ------------------------------------------------------------------------
\* utils/performanceMetrics.js
\* ------------------------------------------------------------------------
\* calculateTotalReturn, lines 43-46
calculateTotalReturn(initial, final) ==
    IF initial = Zero THEN Zero ELSE RDiv(RSub(final, initial), initial)

\* lines 82-87: what one order adds to the sum kept for its side, rate *
\* amount * price where that value is positive
SimulatedTerm(value, rate) == IF RLt(Zero, value) THEN RMul(value, rate) ELSE Zero
\* lines 81-88: the sum over the orders of the given side
RECURSIVE SimulatedSum(_, _, _)
SimulatedSum(log, side, rate) ==
    IF log = <<>> THEN Zero
    ELSE CHOOSE total \in
             {IF Head(log).side = side THEN RAdd(term, rest) ELSE rest :
                  term \in {SimulatedTerm(value, rate) :
                               value \in {RMul(Head(log).amount, Head(log).price)}},
                  rest \in {SimulatedSum(Tail(log), side, rate)}} : TRUE

\* calculateProfitFactor, lines 54-93: grossProfit stays 0, so a loss sum of 0
\* gives 0
ProfitFactorOf(totalSimulatedProfit, totalSimulatedLoss) ==
    IF totalSimulatedLoss = Zero THEN Zero
    ELSE RDiv(totalSimulatedProfit, totalSimulatedLoss)
calculateProfitFactor(log) ==
    IF Len(log) > 0
    THEN CHOOSE factor \in
             {ProfitFactorOf(totalSimulatedProfit, totalSimulatedLoss) :
                  totalSimulatedProfit \in {SimulatedSum(log, "buy", R(1, 100))},
                  totalSimulatedLoss \in {SimulatedSum(log, "sell", R(5, 1000))}} : TRUE
    ELSE Num(1)

\* variant: a trade is a round trip of two orders
calculateTradeStatisticsRoundTrips(log) ==
    [totalTrades |-> Len(log) \div 2,
     winningTrades |-> (Len(log) * 6) \div 10,
     losingTrades |-> Len(log) - (Len(log) * 6) \div 10,
     winRate |-> IF Len(log) > 0 THEN R((Len(log) * 6) \div 10, Len(log)) ELSE Zero]
\* calculateTradeStatistics, lines 153-181: every order counts as a trade and
\* Math.floor(totalTrades * 0.6) of them as winning
calculateTradeStatistics(log) ==
    [totalTrades |-> Len(log),
     winningTrades |-> (Len(log) * 6) \div 10,
     losingTrades |-> Len(log) - (Len(log) * 6) \div 10,
     winRate |-> IF Len(log) > 0 THEN R((Len(log) * 6) \div 10, Len(log)) ELSE Zero]

\* calculateAll, lines 16-35 (sharpeRatio and maxDrawdown, which read the
\* curve only, are left out)
MetricsOf(initial, final, log, statistics) ==
    [initialCapital |-> initial,
     totalTrades |-> statistics.totalTrades,
     winningTrades |-> statistics.winningTrades,
     losingTrades |-> statistics.losingTrades,
     winRate |-> statistics.winRate,
     finalCapital |-> final,
     totalReturn |-> calculateTotalReturn(initial, final),
     profitFactor |-> calculateProfitFactor(log)]
calculateAll(initial, final, log, curve) ==
    MetricsOf(initial, final, log, calculateTradeStatistics(log))

\* the sum of a sequence of numbers
RECURSIVE SumOf(_)
SumOf(seq) ==
    IF seq = <<>> THEN Zero
    ELSE CHOOSE total \in {RAdd(Head(seq), rest) : rest \in {SumOf(Tail(seq))}} : TRUE
MeanOf(seq) == RDiv(SumOf(seq), Num(Len(seq)))

\* calculateSharpeRatio, lines 107-114: the return of one step
StepReturn(prevBalance, balance) ==
    IF prevBalance # Zero THEN RDiv(RSub(balance, prevBalance), prevBalance) ELSE Zero
ReturnsOf(curve) ==
    [j \in 1..(Len(curve) - 1) |-> StepReturn(curve[j].balance, curve[j + 1].balance)]
\* lines 120-123: the mean of the squares of the excess returns, whose square
\* root is stdDev
MeanSquareExcess(returns, riskFreeRate) ==
    MeanOf([j \in 1..Len(returns) |->
               RMul(RSub(returns[j], riskFreeRate), RSub(returns[j], riskFreeRate))])
\* lines 119, 125-126: stdDev is 0 exactly when the mean of the squares is
SharpeQuotient(meanReturn, meanSquare) ==
    IF meanSquare = Zero THEN PosInf ELSE OverRoot(meanReturn, meanSquare)
\* lines 103-127; a curve of n >= 2 points gives n - 1 returns, so line 117
\* never returns
calculateSharpeRatio(curve, riskFreeRate) ==
    IF Len(curve) < 2 THEN Zero
    ELSE CHOOSE ratio \in
             {SharpeQuotient(meanReturn, meanSquare) :
                  meanReturn \in {MeanOf(ReturnsOf(curve))},
                  meanSquare \in {MeanSquareExcess(ReturnsOf(curve), riskFreeRate)}} : TRUE

\* calculateSharpeRatio called on an equity curve
CallCalculateSharpeRatio(curve, riskFreeRate) ==
    /\ MayCall
    /\ last' = [NoCall EXCEPT !.op = "calculateSharpeRatio", !.curve = curve,
                              !.risk = riskFreeRate,
                              !.value = calculateSharpeRatio(curve, riskFreeRate)]
    /\ calls' = calls + 1
    /\ UNCHANGED <<backtestData, currentBalance, tradeLog, equityCurve, holdings, positions,
                   currentPositions, strategyPosition, historicalData, pc, i, lifecycle, paper, live>>

\* calculateMaxDrawdown, lines 134-146: the loop over the points that are
\* left, maxEquity and maxDrawdown being the values reached so far.
\* Math.max gives NaN when one of its arguments is NaN.
RECURSIVE DrawdownLoop(_, _, _)
\* lines 142-143, maxEquity being the peak up to and including the point
DrawdownAfterPeak(points, maxEquity, maxDrawdown) ==
    CHOOSE result \in
        {DrawdownLoop(Tail(points), maxEquity, worst) :
             worst \in {JMax(maxDrawdown,
                             JDiv(RSub(maxEquity, Head(points).balance), maxEquity))}} : TRUE
DrawdownLoop(points, maxEquity, maxDrawdown) ==
    IF points = <<>> THEN maxDrawdown
    ELSE CHOOSE result \in
             {DrawdownAfterPeak(points, peak, maxDrawdown) :
                  peak \in {JMax(maxEquity, Head(points).balance)}} : TRUE
calculateMaxDrawdown(curve) ==
    IF Len(curve) = 0 THEN Zero ELSE DrawdownLoop(curve, NegInf, Zero)

\* calculateMaxDrawdown called on an equity curve
CallCalculateMaxDrawdown(curve) ==
    /\ MayCall
    /\ last' = [NoCall EXCEPT !.op = "calculateMaxDrawdown", !.curve = curve,
                              !.value = calculateMaxDrawdown(curve)]
    /\ calls' = calls + 1
    /\ UNCHANGED <<backtestData, currentBalance, tradeLog, equityCurve, holdings, positions,
                   currentPositions, strategyPosition, historicalData, pc, i, lifecycle, paper, live>>

\* calculateAll called on a trade log
CallCalculateAll(log) ==
    /\ MayCall
    /\ last' = [NoCall EXCEPT !.op = "calculateAll"]
    /\ returned' = <<[tradeLog |-> log, equityCurve |-> <<>>,
                      performance |-> calculateAll(initialCapital, initialCapital,
                                                   log, <<>>)]>>
    /\ calls' = calls + 1
    /\ UNCHANGED <<backtestData, currentBalance, tradeLog, equityCurve, holdings, positions,
                   currentPositions, strategyPosition, historicalData, pc, i,
                   strategyInstance, created, lastInit, now, paper, live>>

\* ------------------------------------------------------------------------
\* runBacktest
\* ------------------------------------------------------------------------
\* lines 206-209; backtestData[0].timestamp raises a TypeError on empty data
RunStart(c) ==
    /\ calls < MaxCalls
    /\ pc[c] = "idle"
    /\ currentBalance' = initialCapital
    /\ tradeLog' = <<>>
    /\ IF backtestData = <<>>
       THEN /\ last' = [NoCall EXCEPT !.op = "runBacktest", !.caller = c, !.raised = TRUE]
            /\ UNCHANGED <<equityCurve, i, pc>>
       ELSE /\ equityCurve' = <<[balance |-> initialCapital,
                                 timestamp |-> backtestData[1].timestamp]>>
            /\ i' = [i EXCEPT ![c] = 1]
            /\ pc' = [pc EXCEPT ![c] = "monitor"]
            /\ last' = [NoCall EXCEPT !.op = "runBacktest", !.caller = c]
    /\ calls' = calls + 1
    /\ UNCHANGED <<backtestData, holdings, positions, currentPositions, strategyPosition,
                   historicalData, lifecycle, paper, live>>

\* line 216; strategyInstance.tradingService raises a TypeError on null
StepMonitor(c) ==
    /\ pc[c] = "monitor"
    /\ IF strategyInstance = 0
       THEN /\ pc' = [pc EXCEPT ![c] = "idle"]
            /\ last' = [NoCall EXCEPT !.op = "runBacktest", !.caller = c, !.raised = TRUE,
                                      !.i = i[c]]
            /\ UNCHANGED <<currentBalance, holdings, positions, tradeLog, currentPositions,
                           strategyPosition>>
       ELSE \E m \in {monitorAndExitPositions(symbol, backtestData[i[c]].close,
                                              currentBalance, holdings, positions, tradeLog,
                                              currentPositions, strategyPosition)} :
              /\ currentBalance' = m.o.bal
              /\ holdings' = m.o.hold
              /\ positions' = m.o.pos
              /\ tradeLog' = m.o.log
              /\ currentPositions' = m.cur
              /\ strategyPosition' = m.sp
              /\ last' = [NoCall EXCEPT !.op = "monitorAndExitPositions", !.s = symbol,
                                        !.price = backtestData[i[c]].close,
                                        !.action = m.action, !.ret = m.o.ret,
                                        !.why = m.o.why, !.i = i[c], !.caller = c,
                                        !.position = m.position, !.at = now]
              /\ pc' = [pc EXCEPT ![c] = "run"]
    /\ UNCHANGED <<backtestData, equityCurve, historicalData, i, calls, lifecycle, paper, live>>

\* line 218; an error raised by run ends runBacktest
StepRun(c) ==
    /\ pc[c] = "run"
    /\ \E ind \in Indicators :
         \E r \in {run(backtestData[i[c]].close, ind, currentBalance, holdings, positions,
                       tradeLog, currentPositions, strategyPosition, historicalData)} :
             /\ historicalData' = r.hist
             /\ currentBalance' = r.st.o.bal
             /\ holdings' = r.st.o.hold
             /\ positions' = r.st.o.pos
             /\ tradeLog' = r.st.o.log
             /\ currentPositions' = r.st.cur
             /\ strategyPosition' = r.st.sp
             /\ last' = [NoCall EXCEPT !.op = "run", !.s = symbol, !.i = i[c],
                                       !.attempts = r.st.attempts,
                                       !.signal = r.signal, !.caller = c,
                                       !.ret = r.st.o.ret, !.why = r.st.o.why,
                                       !.raised = r.raised, !.at = now]
             /\ pc' = [pc EXCEPT ![c] = IF r.raised THEN "idle" ELSE "equity"]
    /\ UNCHANGED <<backtestData, equityCurve, i, calls, lifecycle, paper, live>>

\* variant: the point carries the starting capital
EquityPointOfCapital(candle, balance) ==
    [balance |-> initialCapital, timestamp |-> candle.timestamp]
\* lines 221-226: the point appended for a candle
EquityPoint(candle, balance) == [balance |-> balance, timestamp |-> candle.timestamp]

StepEquity(c) ==
    /\ pc[c] = "equity"
    /\ equityCurve' = Append(equityCurve, EquityPoint(backtestData[i[c]], currentBalance))
    /\ last' = [NoCall EXCEPT !.op = "equity", !.i = i[c], !.caller = c]
    /\ IF i[c] < Len(backtestData)
       THEN i' = [i EXCEPT ![c] = i[c] + 1] /\ pc' = [pc EXCEPT ![c] = "monitor"]
       ELSE i' = i /\ pc' = [pc EXCEPT ![c] = "done"]
    /\ UNCHANGED <<backtestData, currentBalance, tradeLog, holdings, positions,
                   currentPositions, strategyPosition, historicalData, calls, lifecycle, paper, live>>

\* lines 229-246: the metrics are computed from the module's trade log and
\* equity curve and returned
RunEnd(c) ==
    /\ pc[c] = "done"
    /\ pc' = [pc EXCEPT ![c] = "idle"]
    /\ last' = [NoCall EXCEPT !.op = "return", !.caller = c]
    /\ returned' = <<[tradeLog |-> tradeLog, equityCurve |-> equityCurve,
                      performance |-> calculateAll(initialCapital, currentBalance,
                                                   tradeLog, equityCurve)]>>
    /\ UNCHANGED <<backtestData, currentBalance, tradeLog, equityCurve, holdings, positions,
                   currentPositions, strategyPosition, historicalData, i, calls,
                   strategyInstance, created, lastInit, now, paper, live>>

\* ------------------------------------------------------------------------
\* Specifications
\* ------------------------------------------------------------------------
\* the ledger under arbitrary executeTrade calls
AnyExecuteTrade ==
    \E s \in Symbols, side \in Sides, amount \in Amounts, price \in Prices :
        CallExecuteTrade(s, side, amount, price)

\* calls on the service alone: the candles play no part, one data file is taken
InitService == Init /\ \A t \in 1..NumCandles : backtestData[t].close = Num(100)

NextLedger == AnyExecuteTrade
SpecLedger == InitService /\ [][NextLedger]_vars

\* the ledger under arbitrary executeTrade calls while the clock runs
NextClock == AnyExecuteTrade \/ Tick
SpecClock == InitService /\ [][NextClock]_vars

\* the strategy under direct run calls while the clock runs
AnyRun == \E candle \in RunCandles, ind \in Indicators : CallRun(candle, ind)
NextStrategy == AnyRun \/ Tick
SpecStrategy == InitService /\ [][NextStrategy]_vars

\* a strategy as constructed (lines 44-52: no candles, no position) or after an
\* initialize() that loaded its candles, under run calls with one well-formed
\* candle and setPosition / clearPosition calls
InitEntries ==
    /\ backtestData = [t \in 1..NumCandles |-> Candle(t, Num(100))]
    /\ currentBalance = initialCapital
    /\ tradeLog = <<>>
    /\ equityCurve = <<>>
    /\ holdings = [s \in Symbols |-> Zero]
    /\ positions = [s \in Symbols |-> Zero]
    /\ currentPositions = [s \in Symbols |-> NoPosition]
    /\ strategyPosition = NoStrategyPosition
    /\ historicalData \in {<<>>, [j \in 1..(maxHistoricalDataSize + 10) |-> mockClose]}
    /\ pc = [c \in Callers |-> "idle"]
    /\ i = [c \in Callers |-> 0]
    /\ last = NoCall
    /\ calls = 0
    /\ strategyInstance = 1
    /\ created = [c \in Callers |-> 0]
    /\ lastInit = "ok"
    /\ returned = NoResult
    /\ now = 0
    /\ currentBalances = initialBalance
    /\ trades = <<>>
    /\ ServiceInBacktest
EntryCandle == OHLC(Num(100), Num(120), Num(90), Num(100))
AnyRunOn == \E ind \in Indicators : CallRunOn(EntryCandle, ind)
AnySetPosition == \E side \in PositionSides : CallSetPosition(side, Num(100), Num(1))
NextEntries == AnyRunOn \/ AnySetPosition
SpecEntries == InitEntries /\ [][NextEntries]_vars

\* the position monitor under arbitrary calls, with buys to fund the exits
FundingBuy == \E s \in Symbols : CallExecuteTrade(s, "buy", Num(1), Num(100))
AnyManagePosition ==
    \E s \in Symbols, side \in PositionSides, entryPrice \in EntryPrices,
       amount \in PositionAmounts, cfg \in RiskConfigs :
        CallManagePosition(s, side, entryPrice, amount, cfg)
AnyMonitor == \E s \in Symbols, currentPrice \in Closes : CallMonitor(s, currentPrice)

NextMonitor == FundingBuy \/ AnyManagePosition \/ AnyMonitor
SpecMonitor == InitService /\ [][NextMonitor]_vars

\* the risk manager's functions on arbitrary arguments
AnyCalculateLotSize ==
    \E s \in Symbols, currentPrice \in LotPrices, accountBalance \in LotBalances,
       riskPercentage \in LotRisks :
        CallCalculateLotSize(s, currentPrice, accountBalance, riskPercentage)

AnyValidateTrade ==
    \E s \in Symbols, amount \in TradeAmounts, price \in TradePrices,
       accountBalance \in TradeBalances :
        CallValidateTrade(s, amount, price, accountBalance)

AnyValidateCooldown ==
    \E lastTradeTime \in TradeTimes, period \in CooldownPeriods :
        CallValidateCooldown(lastTradeTime, period)

NextRisk == AnyCalculateLotSize \/ AnyValidateTrade \/ AnyValidateCooldown \/ Tick
SpecRisk == InitService /\ [][NextRisk]_vars

\* stops and targets: the risk manager's two functions and the position
\* monitor's managePosition on the strategy's symbol
AnyStopOrTarget ==
    \E entryPrice \in StopEntryPrices, side \in StopSides, pct \in StopPercents :
        \/ CallCalculateStopLoss(entryPrice, side, pct)
        \/ CallCalculateTakeProfit(entryPrice, side, pct)
OpenAnyPosition ==
    \E side \in PositionSides, entryPrice \in EntryPrices, amount \in PositionAmounts,
       cfg \in RiskConfigs :
        CallManagePosition(symbol, side, entryPrice, amount, cfg)

NextStops == AnyStopOrTarget \/ OpenAnyPosition
SpecStops == InitService /\ [][NextStops]_vars

\* the paper trader under arbitrary executeTrade calls
AnyPaperTrade ==
    \E sym \in PaperSymbols, side \in Sides, amount \in PaperAmounts, type \in OrderTypes,
       price \in PaperPrices, tickerLast \in TickerLasts :
        CallPaperExecuteTrade(sym, side, amount, type, price, tickerLast)

NextPaper == AnyPaperTrade
SpecPaper == InitService /\ [][NextPaper]_vars

\* the metrics on arbitrary trade logs
AnyCalculateAll == \E log \in TradeLogs : CallCalculateAll(log)
\* the trading service after initializeTradingService in live or paper mode
\* (lines 28-45), with or without dry run, under executeTrade and
\* monitorAndExitPositions calls
TradingStart(hist) ==
    /\ backtestData = [t \in 1..NumCandles |-> Candle(t, Num(100))]
    /\ currentBalance = initialCapital
    /\ tradeLog = <<>>
    /\ equityCurve = <<>>
    /\ holdings = [s \in Symbols |-> Zero]
    /\ positions = [s \in Symbols |-> Zero]
    /\ currentPositions = [s \in Symbols |-> NoPosition]
    /\ strategyPosition = NoStrategyPosition
    /\ historicalData = hist
    /\ pc = [c \in Callers |-> "idle"]
    /\ i = [c \in Callers |-> 0]
    /\ last = NoCall
    /\ calls = 0
    /\ strategyInstance = 0
    /\ created = [c \in Callers |-> 0]
    /\ lastInit = "none"
    /\ returned = NoResult
    /\ now = 0
    /\ currentBalances = initialBalance
    /\ trades = <<>>
    /\ tradeExecutionMode \in {"live", "paper"}
    /\ isDryRun \in BOOLEAN
    /\ balanceCache = IF tradeExecutionMode = "live" THEN LiveBalances ELSE initialBalance
    /\ placed = <<>>
    /\ handlers = [h \in Handlers |-> IdleHandler]
InitTrading == TradingStart(<<>>)
AnyServiceTrade ==
    \E s \in Symbols, side \in Sides, amount \in ServiceAmounts, type \in OrderTypes,
       price \in PaperPrices, ticker \in Tickers, response \in Responses :
        CallServiceExecuteTrade(s, side, amount, type, price, ticker, response)
AnyServiceMonitor ==
    \E triggeredAction \in Triggers, ticker \in Tickers, response \in Responses :
        CallServiceMonitor(triggeredAction, ticker, response)
NextTrading == AnyServiceTrade \/ AnyServiceMonitor
SpecTrading == InitTrading /\ [][NextTrading]_vars

\* a strategy whose initialize() loaded its candles, on the trading service:
\* candle events whose handlers may overlap, setPosition and exitPosition calls
InitHandlers == TradingStart([j \in 1..maxHistoricalDataSize |-> mockClose])
AnyHandlerStart ==
    \E h \in Handlers, ind \in Indicators : HandlerStart(h, EntryCandle, ind)
AnyHandlerResume ==
    \E h \in Handlers, ticker \in Tickers, response \in Responses :
        HandlerResume(h, ticker, response)
AnyExitPosition ==
    \E side \in PositionSides, ticker \in Tickers, response \in Responses :
        CallExitPosition(side, ticker, response)
NextHandlers == AnyHandlerStart \/ AnyHandlerResume \/ AnyExitPosition \/ AnySetPosition
SpecHandlers == InitHandlers /\ [][NextHandlers]_vars

NextMetrics == AnyCalculateAll
SpecMetrics == InitService /\ [][NextMetrics]_vars

\* the metrics of arbitrary equity curves
AnyCalculateMaxDrawdown == \E curve \in Curves : CallCalculateMaxDrawdown(curve)
AnyCalculateSharpeRatio ==
    \E curve \in Curves, riskFreeRate \in SharpeRates :
        CallCalculateSharpeRatio(curve, riskFreeRate)
NextCurves == AnyCalculateMaxDrawdown \/ AnyCalculateSharpeRatio
SpecCurves == InitService /\ [][NextCurves]_vars

\* the replay, after a position was opened through the service and the strategy
OpenPosition ==
    \/ CallExecuteTrade(symbol, "buy", Num(1), Num(100))
    \/ \E side \in PositionSides :
         \/ CallManagePosition(symbol, side, Num(100), Num(1), strategyRisk)
         \/ CallSetPosition(side, Num(100), Num(1))
Replay == RunStart(1) \/ StepMonitor(1) \/ StepRun(1) \/ StepEquity(1) \/ RunEnd(1)

Next == OpenPosition \/ Replay
Spec == Init /\ [][Next]_vars

\* one caller initializing and running, in any order
AnyInit(c) ==
    \/ \E data \in FilteredData, loadOk \in BOOLEAN, known \in BOOLEAN :
           InitStart(c, data, loadOk, known)
    \/ \E fetched \in Fetched : InitFinish(c, fetched)
ReplayOf(c) == RunStart(c) \/ StepMonitor(c) \/ StepRun(c) \/ StepEquity(c) \/ RunEnd(c)

NextLifecycle == AnyInit(1) \/ ReplayOf(1)
SpecLifecycle == InitFresh /\ [][NextLifecycle]_vars

\* two callers, their calls interleaving at the awaits
NextConcurrent == \E c \in Callers : AnyInit(c) \/ ReplayOf(c)
SpecConcurrent == InitFresh /\ [][NextConcurrent]_vars

\* the replay under the scheduling of the event loop: an awaited call of the
\* simulated service or of the strategy settles, and the loop goes on
Continue == StepMonitor(1) \/ StepRun(1) \/ StepEquity(1) \/ RunEnd(1)
\* data files whose closes are 100 (no exit of a position entered at 100) or
\* 120 (its stop or its target)
InitReplay ==
    Init /\ \A t \in 1..NumCandles : backtestData[t].close \in {Num(100), Num(120)}
SpecFair == InitReplay /\ [][Next]_vars /\ WF_vars(Continue)

\* repeated replays of the same candles while the clock runs: the service is
\* called only before the first replay
OpenBeforeRuns == equityCurve = <<>> /\ OpenPosition
NextRuns == OpenBeforeRuns \/ Replay \/ Tick
SpecRuns == Init /\ [][NextRuns]_vars

\* ------------------------------------------------------------------------
\* Properties of the simulated executeTrade (SpecLedger)
\* ------------------------------------------------------------------------
Ledger == <<currentBalance, holdings, positions, tradeLog>>

\* C1: a buy whose cost amount*price exceeds the cash balance, or a sell whose
\* amount exceeds the symbol's holdings, returns null and leaves the cash
\* balance, the holdings, the position quantities and the trade log unchanged.
C1_RejectedTradeChangesNothing ==
    [][ (last'.op = "executeTrade" /\ Truthy(last'.price)) =>
          LET a == IF Truthy(last'.amount) THEN last'.amount
                   ELSE calculateLotSize(last'.s, last'.price, currentBalance, Null)
              exceeds ==
                \/ last'.side = "buy" /\ RLt(currentBalance, RMul(a, last'.price))
                \/ last'.side = "sell" /\ RLt(holdings[last'.s], a)
          IN  (RLt(Zero, a) /\ exceeds) => (last'.ret = NoOrder /\ UNCHANGED Ledger)
      ]_vars

\* a buy of 200 at 100 was refused after an earlier trade had gone through
C1_Witness ==
    /\ last.op = "executeTrade" /\ last.side = "buy"
    /\ last.amount = Num(200) /\ last.price = Num(100)
    /\ last.ret = NoOrder
    /\ tradeLog # <<>>

\* C2: a successful buy of a at p lowers the cash balance by exactly a*p and
\* raises the holdings by a; a successful sell of a at p raises the cash
\* balance by exactly a*p and lowers the holdings by a.
C2_ExactDeltas ==
    [][ (last'.op = "executeTrade" /\ last'.ret # NoOrder) =>
          LET t == last'.ret[1]
              cost == RMul(t.amount, t.price)
          IN  /\ t.side = "buy" =>
                   /\ currentBalance' = RSub(currentBalance, cost)
                   /\ holdings'[t.symbol] = RAdd(holdings[t.symbol], t.amount)
              /\ t.side = "sell" =>
                   /\ currentBalance' = RAdd(currentBalance, cost)
                   /\ holdings'[t.symbol] = RSub(holdings[t.symbol], t.amount)
      ]_vars

\* C3: after any sequence of executeTrade calls with positive prices the cash
\* balance and every symbol's holdings are >= 0.
C3_NonNegativeLedger ==
    /\ RLe(Zero, currentBalance)
    /\ \A s \in Symbols : RLe(Zero, holdings[s])

\* three trades went through, a sell and a risk-sized buy among them
C3_Witness ==
    /\ Len(tradeLog) = 3
    /\ \E j \in 1..3 : tradeLog[j].side = "sell"
    /\ \E j \in 1..3 : tradeLog[j].side = "buy" /\ tradeLog[j].amount # Num(1)

\* C5: an explicit amount is used as given, and a resolved amount <= 0, an
\* explicit 0 or negative amount included, returns null, records no trade and
\* changes no balance.
C5_NonPositiveAmountRejected ==
    [][ (last'.op = "executeTrade" /\ IsNum(last'.amount) /\ RLe(last'.amount, Zero)) =>
          (last'.ret = NoOrder /\ UNCHANGED Ledger)
      ]_vars

\* C33: the two per-symbol quantity tables of the adapter are equal in every
\* reachable state (holdings[s] = positions[s] for every symbol s), so no sell
\* that passed the holdings check is rejected by the later positions check.
C33_TablesEqual ==
    /\ \A s \in Symbols : holdings[s] = positions[s]
    /\ last.why # "position"

\* a sell went through and left part of the symbol's quantity in both tables
C33_Witness ==
    /\ last.op = "executeTrade" /\ last.side = "sell" /\ last.ret # NoOrder
    /\ RLt(Zero, holdings[last.s])
    /\ RLt(Zero, positions[last.s])

\* a buy with no amount given, sized by calculateLotSize: a direct call of the
\* adapter or the entry of the reference strategy
RiskSizedBuy ==
    \/ last'.op = "executeTrade" /\ last'.side = "buy" /\ last'.amount = Null
    \/ last'.op = "run" /\ last'.attempts = <<"buy">>

RiskSizedOutcome ==
    /\ last'.ret # NoOrder =>
          RLe(RMul(last'.ret[1].amount, last'.ret[1].price),
              RMul(maxRiskPerTrade, currentBalance))
    /\ last'.why # "funds"
    /\ last'.ret = NoOrder => RLt(currentBalance, minimumBalance)

\* C34: every executed risk-sized buy has a notional amount*price of at most
\* maxRiskPerTrade times the cash balance before the trade; a risk-sized buy
\* is never rejected for insufficient funds and is skipped only when the cash
\* balance is below minimumBalance.
C34_RiskSizedBuy == [][ RiskSizedBuy => RiskSizedOutcome ]_vars

\* the same for the risk-sized buys that are given a price
C34_Priced == [][ (RiskSizedBuy /\ Truthy(last'.price)) => RiskSizedOutcome ]_vars

\* a risk-sized buy at a given price was filled
C34_Filled ==
    /\ last.op = "executeTrade" /\ last.side = "buy" /\ last.amount = Null
    /\ last.ret # NoOrder

\* ------------------------------------------------------------------------
\* Properties of the trading service (SpecTrading)
\* ------------------------------------------------------------------------
ServiceCalled == last'.op \in {"service.executeTrade", "service.monitorAndExitPositions"}

\* C36: while dry run is enabled in live mode, no executeTrade or
\* monitorAndExitPositions call places an order on the exchange connector or
\* changes the cached balances.
C36_DryRunPlacesNothing ==
    [][ (tradeExecutionMode = "live" /\ isDryRun /\ ServiceCalled) =>
          /\ placed' = placed
          /\ balanceCache' = balanceCache
      ]_vars

\* in dry run, a risk-sized trade and then a triggered exit each came back
\* with a dry-run order
C36_Witness ==
    /\ tradeExecutionMode = "live" /\ isDryRun
    /\ calls = 2
    /\ last.op = "service.monitorAndExitPositions" /\ last.why = "dry"
    /\ last.ret # NoOrder

\* the cache as the side of a closed order requires it
AdjustedBySide(cache, order) ==
    IF order.side = "buy"
    THEN [cache EXCEPT ![QuoteOf(order.symbol)] = JSub(@, RMul(order.amount, order.price)),
                       ![BaseOf(order.symbol)] = JAdd(@, order.amount)]
    ELSE [cache EXCEPT ![QuoteOf(order.symbol)] = JAdd(@, RMul(order.amount, order.price)),
                       ![BaseOf(order.symbol)] = JSub(@, order.amount)]

ClosedOrder ==
    /\ tradeExecutionMode = "live" /\ ~isDryRun /\ ServiceCalled
    /\ last'.ret # NoOrder /\ last'.ret[1].status = "closed"

\* C37: in live mode every closed order adjusts the cached balances
\* according to its side: a buy lowers the quote asset by amount*price and
\* raises the base asset by amount, a sell raises the quote asset by
\* amount*price and lowers the base asset by amount.
C37_CacheFollowsSide ==
    [][ ClosedOrder => balanceCache' = AdjustedBySide(balanceCache, last'.ret[1]) ]_vars

\* the same for the closed buys
C37_Buys ==
    [][ (ClosedOrder /\ last'.ret[1].side = "buy") =>
          balanceCache' = AdjustedBySide(balanceCache, last'.ret[1]) ]_vars

\* a closed buy came back from the exchange after another order
C37_Bought ==
    /\ tradeExecutionMode = "live" /\ ~isDryRun
    /\ last.ret # NoOrder /\ last.ret[1].status = "closed" /\ last.ret[1].side = "buy"
    /\ Len(placed) = 2

\* ------------------------------------------------------------------------
\* Properties of the strategy on the trading service (SpecHandlers)
\* ------------------------------------------------------------------------
\* C35: when two invocations of run() on the same instance overlap (the
\* second starts while the first is suspended awaiting executeTrade), at most
\* one of them executes an entry trade and sets the position.
C35_SingleEntry ==
    \A h, g \in Handlers :
        (h # g /\ handlers[h].overlaps /\ handlers[h].entered) => ~handlers[g].entered

\* a run that starts while a position is open asks for no entry
C35_Guarded ==
    [][ (last'.op = "run.start" /\ strategyPosition # NoStrategyPosition) =>
          last'.side = "" ]_vars

\* an overlapping run was refused its entry after the other run entered
C35_Refused ==
    \E h, g \in Handlers :
        /\ h # g /\ handlers[h].overlaps /\ handlers[h].pc = "done"
        /\ ~handlers[h].entered /\ handlers[g].entered

NoPositionOf(side) == strategyPosition = NoStrategyPosition \/ strategyPosition.side # side

\* C38: exitPosition(side) clears the position only when the exit trade was
\* executed: when executeTrade returns null or throws the position is left
\* unchanged and no exception escapes; when no position of that side exists
\* no trade is attempted and the position is left unchanged.
C38_ExitPosition ==
    [][ last'.op = "exitPosition" =>
          /\ ~last'.raised
          /\ strategyPosition' # strategyPosition =>
                /\ strategyPosition' = NoStrategyPosition
                /\ last'.ret # NoOrder
          /\ last'.ret = NoOrder => strategyPosition' = strategyPosition
          /\ NoPositionOf(last'.side) =>
                /\ last'.attempts = <<>>
                /\ strategyPosition' = strategyPosition
                /\ placed' = placed /\ balanceCache' = balanceCache
                /\ currentBalances' = currentBalances /\ trades' = trades
      ]_vars

\* the exit order of an open position was rejected by the exchange, or the
\* ticker could not be read, and the position is still there
C38_Witness ==
    /\ last.op = "exitPosition" /\ last.attempts # <<>>
    /\ last.ret = NoOrder /\ last.why \in {"error", "ticker"}
    /\ strategyPosition # NoStrategyPosition /\ strategyPosition.side = last.side

\* the exit order was executed and the position cleared
C38_Cleared ==
    /\ last.op = "exitPosition" /\ last.ret # NoOrder
    /\ strategyPosition = NoStrategyPosition

\* an exit of the other side was asked for
C38_OtherSide ==
    /\ last.op = "exitPosition" /\ last.attempts = <<>>
    /\ strategyPosition # NoStrategyPosition

\* ------------------------------------------------------------------------
\* Properties of the position monitor (SpecMonitor)
\* ------------------------------------------------------------------------
StopHit(p, price) ==
    \/ p.side = "long" /\ RLe(price, p.stopLossPrice)
    \/ p.side = "short" /\ RLe(p.stopLossPrice, price)
TargetHit(p, price) ==
    \/ p.side = "long" /\ RLe(p.takeProfitPrice, price)
    \/ p.side = "short" /\ RLe(price, p.takeProfitPrice)

\* C7: the exit check on an open position gives stop_loss exactly when the
\* stop condition holds, otherwise take_profit exactly when the target
\* condition holds, otherwise nothing; when both hold it gives stop_loss; with
\* no open position it does nothing.
C7_ExitDecision ==
    [][ last'.op = "monitorAndExitPositions" =>
          LET p == currentPositions[last'.s] IN
          IF p = NoPosition
          THEN last'.action = "none" /\ UNCHANGED <<Ledger, currentPositions, strategyPosition>>
          ELSE last'.action = IF StopHit(p, last'.price) THEN "stop_loss"
                              ELSE IF TargetHit(p, last'.price) THEN "take_profit"
                              ELSE "none"
      ]_vars

\* a tick on which stop and target of the position both held: stop_loss
C7_Witness ==
    /\ last.op = "monitorAndExitPositions"
    /\ last.position # NoPosition
    /\ StopHit(last.position, last.price) /\ TargetHit(last.position, last.price)
    /\ Truthy(last.price)
    /\ last.action = "stop_loss"

\* C8: on a trigger the position goes from open to none only if the exit trade
\* was executed; when the exit executeTrade returns null the position stays
\* open in the monitor and in the strategy.
C8_ClearedOnlyAfterExit ==
    [][ (last'.op = "monitorAndExitPositions" /\ currentPositions[last'.s] # NoPosition
         /\ last'.ret = NoOrder) =>
          /\ currentPositions'[last'.s] = currentPositions[last'.s]
          /\ strategyPosition' = strategyPosition
      ]_vars

\* C9: managePosition for a symbol that already has an open position leaves
\* that position's side, entry price, amount, stop and target unchanged.
C9_OpenPositionNotReplaced ==
    [][ (last'.op = "managePosition" /\ currentPositions[last'.s] # NoPosition) =>
          currentPositions'[last'.s] = currentPositions[last'.s]
      ]_vars

\* ------------------------------------------------------------------------
\* Properties of the replay (Spec)
\* ------------------------------------------------------------------------
\* C4: executeTrade called without a price while the loop processes candle i
\* is filled at that candle's close, not rejected for lack of a price.
C4_FilledAtCandleClose ==
    (last.op = "run" /\ last.attempts # <<>> /\ Truthy(backtestData[last.i].close)) =>
        /\ last.why # "no_price"
        /\ last.ret # NoOrder => last.ret[1].price = backtestData[last.i].close

\* C6: for every candle, in this order: the exit check at the candle's close,
\* the strategy's run, the append of one equity point carrying the cash
\* balance of that moment; the next candle starts only after the append.
C6_CandleOrder ==
    [][ /\ (last'.op = "monitorAndExitPositions" /\ pc[1] # "idle") =>
              /\ last'.s = symbol
              /\ last'.price = backtestData[last'.i].close
              /\ \/ last.op = "runBacktest" /\ last'.i = 1
                 \/ last.op = "equity" /\ last'.i = last.i + 1
        /\ last'.op = "run" =>
              /\ last.op = "monitorAndExitPositions" /\ last.i = last'.i
        /\ last'.op = "equity" =>
              /\ last.op = "run" /\ last.i = last'.i
              /\ equityCurve' = Append(equityCurve,
                                       [balance |-> currentBalance',
                                        timestamp |-> backtestData[last'.i].timestamp])
              /\ Len(equityCurve') = last'.i + 1
      ]_vars

\* a stop or target was executed at this candle's close, the strategy made
\* no attempt, and the point of the candle carries the balance after the exit
C6_Witness ==
    /\ last.op = "equity"
    /\ Len(tradeLog) = 1
    /\ tradeLog[1].price = backtestData[last.i].close
    /\ equityCurve[Len(equityCurve)].balance = currentBalance
    /\ currentBalance # initialCapital

\* C10: no entry is made while a position is open, and one run makes at most
\* one entry.  Stated on the calls run makes to executeTrade: none with a
\* position open, at most one otherwise; the trade log then grows by no
\* entry while a position is open and by at most one trade per run.
C10_NoEntryWhileOpen ==
    [][ last'.op = "run" =>
          /\ Len(last'.attempts) <= 1
          /\ Len(tradeLog') <= Len(tradeLog) + 1
          /\ strategyPosition # NoStrategyPosition =>
                /\ last'.attempts = <<>>
                /\ tradeLog' = tradeLog
                /\ strategyPosition' = strategyPosition
      ]_vars

\* run met an entry signal with a position open and made no call
C10_Witness ==
    /\ last.op = "run"
    /\ last.signal # "none"
    /\ strategyPosition # NoStrategyPosition
    /\ last.attempts = <<>>

\* C11: after runBacktest has replayed the N candles of the data, the equity
\* curve holds exactly N points, one appended per processed candle, in candle
\* order.
C11_OnePointPerCandle ==
    pc[1] = "done" =>
        /\ Len(equityCurve) = Len(backtestData)
        /\ \A k \in 1..Len(equityCurve) :
               equityCurve[k].timestamp = backtestData[k].timestamp

\* ------------------------------------------------------------------------
\* Properties of the risk manager (SpecRisk)
\* ------------------------------------------------------------------------
\* C20: calculateLotSize returns 0 for every accountBalance < minimumBalance,
\* and otherwise max(0, min(accountBalance*riskPercentage,
\* accountBalance*maxRiskPerTrade) / currentPrice) for currentPrice > 0, with
\* riskPercentage taken as maxRiskPerTrade when omitted.
C20_LotSize ==
    (last.op = "calculateLotSize" /\ RLt(Zero, last.price)) =>
        LET riskPercentage == IF last.risk = Null THEN maxRiskPerTrade ELSE last.risk
        IN  last.value =
              IF RLt(last.balance, minimumBalance) THEN Zero
              ELSE RMax(Zero, RDiv(RMin(RMul(last.balance, riskPercentage),
                                        RMul(last.balance, maxRiskPerTrade)),
                                   last.price))

\* C24: calculateLotSize called with currentPrice = 0 and any accountBalance
\* >= 0 does not throw and returns a finite number, never NaN or Infinity.
C24_ZeroPriceFinite ==
    (last.op = "calculateLotSize" /\ last.price = Zero /\ RLe(Zero, last.balance)) =>
        IsNum(last.value)

\* the three conditions of C21 on the arguments of the last call; the quotient
\* of the first is compared by cross-multiplication, for a balance other than 0
TradeValue == RMul(last.amount, last.price)
OverRisk ==
    \/ RLt(Zero, last.balance) /\ RLt(RMul(maxRiskPerTrade, last.balance), TradeValue)
    \/ RLt(last.balance, Zero) /\ RLt(TradeValue, RMul(maxRiskPerTrade, last.balance))
BelowMinimum == RLt(last.balance, minimumBalance)
UnderFloor == RLt(TradeValue, Num(10))

C23_Cooldown ==
    (last.op = "validateCooldown" /\ last.period # Null) =>
        (last.valid <=> last.at - last.since >= last.period.n)

\* ------------------------------------------------------------------------
\* Properties of stops and targets (SpecStops)
\* ------------------------------------------------------------------------
InUnit(pct) == RLt(Zero, pct) /\ RLt(pct, Num(1))
IsLongSide(side) == side \in {"long", "buy"}
StopOf(entryPrice, side, pct) ==
    RMul(entryPrice, IF IsLongSide(side) THEN RSub(Num(1), pct) ELSE RAdd(Num(1), pct))
TargetOf(entryPrice, side, pct) ==
    RMul(entryPrice, IF IsLongSide(side) THEN RAdd(Num(1), pct) ELSE RSub(Num(1), pct))
GivenOr(pct, default) == IF pct = Null THEN default ELSE pct

\* C22: for every entryPrice > 0 and pct in (0,1) the stop-loss price of a
\* long position is entryPrice*(1-pct) and of a short entryPrice*(1+pct), the
\* take-profit price of a long entryPrice*(1+pct) and of a short
\* entryPrice*(1-pct): for calculateStopLoss and calculateTakeProfit with the
\* side given as long/short or as buy/sell, and for the stop and target that
\* managePosition stores.
C22_StopAndTarget ==
    /\ (last.op = "calculateStopLoss" /\ RLt(Zero, last.price)
        /\ InUnit(GivenOr(last.risk, stopLossPercentage))) =>
          last.value = StopOf(last.price, last.side, GivenOr(last.risk, stopLossPercentage))
    /\ (last.op = "calculateTakeProfit" /\ RLt(Zero, last.price)
        /\ InUnit(GivenOr(last.risk, takeProfitPercentage))) =>
          last.value = TargetOf(last.price, last.side,
                                GivenOr(last.risk, takeProfitPercentage))
    /\ (last.op = "managePosition" /\ RLt(Zero, last.price)
        /\ InUnit(GivenOr(last.cfg[1].stopLossPercent, defaultStopLossPercent))
        /\ InUnit(GivenOr(last.cfg[1].takeProfitPercent, defaultTakeProfitPercent))) =>
          /\ currentPositions[last.s].stopLossPrice =
                StopOf(last.price, last.side,
                       GivenOr(last.cfg[1].stopLossPercent, defaultStopLossPercent))
          /\ currentPositions[last.s].takeProfitPrice =
                TargetOf(last.price, last.side,
                         GivenOr(last.cfg[1].takeProfitPercent, defaultTakeProfitPercent))

\* ------------------------------------------------------------------------
\* Properties of the paper trader (SpecPaper)
\* ------------------------------------------------------------------------
\* what is held of an asset: nothing when the table has no entry for it
HeldOf(bals, asset) == IF bals[asset] = Undefined THEN Zero ELSE bals[asset]

\* C25: a paper buy whose cost exceeds the quote-asset balance, or a paper
\* sell whose amount exceeds the base-asset balance, returns null, changes no
\* balance and appends no trade, for every symbol, one whose base or quote
\* asset has no entry in the balance table included; and every balance the
\* table holds stays a number >= 0.
C25_PaperBalanceContract ==
    [][ (last'.op = "paperExecuteTrade" /\ ~last'.raised) =>
          /\ (\/ last'.side = "buy"
                  /\ RLt(HeldOf(currentBalances, QuoteOf(last'.s)),
                         RMul(last'.amount, last'.price))
              \/ last'.side = "sell"
                  /\ RLt(HeldOf(currentBalances, BaseOf(last'.s)), last'.amount)) =>
                (last'.ret = NoOrder /\ UNCHANGED paper)
          /\ \A a \in Assets :
                currentBalances'[a] = Undefined \/ RLe(Zero, currentBalances'[a])
      ]_vars

\* ------------------------------------------------------------------------
\* Properties of the metrics (Spec, SpecMetrics)
\* ------------------------------------------------------------------------
\* C26: the metrics returned by runBacktest have totalTrades equal to the
\* number of records of the trade log, finalCapital equal to the cash balance
\* after the last candle, and initialCapital equal to the capital the run was
\* seeded with (the balance of the curve's first point).
C26_MetricsMatchLedger ==
    [][ (last'.op = "return" /\ last'.caller = 1) =>
          /\ returned'[1].performance.totalTrades = Len(tradeLog)
          /\ returned'[1].performance.finalCapital = currentBalance
          /\ returned'[1].performance.initialCapital = equityCurve[1].balance
      ]_vars

\* a run returned its metrics after an exit was executed on the way
C26_Witness ==
    /\ last.op = "return"
    /\ returned # NoResult
    /\ returned[1].performance.totalTrades = 1
    /\ returned[1].performance.finalCapital # returned[1].performance.initialCapital

\* the realized profit and loss of the lots a log closes: an order against the
\* oldest open lot closes it, any other order opens a lot
LotPnl(lot, exit) ==
    RMul(exit.amount, IF lot.side = "buy" THEN RSub(exit.price, lot.price)
                      ELSE RSub(lot.price, exit.price))
RECURSIVE ClosedLots(_, _, _)
ClosedLots(log, open, closed) ==
    IF log = <<>> THEN closed
    ELSE IF open # <<>> /\ Head(open).side # Head(log).side
    THEN ClosedLots(Tail(log), Tail(open), Append(closed, LotPnl(Head(open), Head(log))))
    ELSE ClosedLots(Tail(log), Append(open, Head(log)), closed)
Winning(closed) == Cardinality({j \in 1..Len(closed) : RLt(Zero, closed[j])})
Losing(closed) == Cardinality({j \in 1..Len(closed) : RLt(closed[j], Zero)})

\* C27: winningTrades and losingTrades count the lots closed in the log whose
\* realized profit and loss, each exit being paired FIFO with the oldest open
\* entry lot of the symbol, is > 0 and < 0 respectively.
C27_WinsAndLossesFromPnl ==
    last.op = "calculateAll" =>
        /\ returned[1].performance.winningTrades =
              Winning(ClosedLots(returned[1].tradeLog, <<>>, <<>>))
        /\ returned[1].performance.losingTrades =
              Losing(ClosedLots(returned[1].tradeLog, <<>>, <<>>))

\* ------------------------------------------------------------------------
\* Properties of the reference strategy's history (SpecLifecycle)
\* ------------------------------------------------------------------------
\* C28: after initialize() and any number of run() calls the strategy's candle
\* history never holds more than maxHistoricalDataSize candles.
C28_HistoryWithinWindow == Len(historicalData) <= maxHistoricalDataSize

\* ------------------------------------------------------------------------
\* Properties of the reference strategy's entries (SpecEntries)
\* ------------------------------------------------------------------------
\* the indicator values the last run call was given
Seen == last.ind[1]
\* the call got as far as the decision: the window was full and every current
\* indicator value a number
WindowFull == Len(historicalData) >= maxHistoricalDataSize
CurrentValuesKnown ==
    IsNum(Seen.currentRSI) /\ IsNum(Seen.currentFastEma) /\ IsNum(Seen.currentSlowEma)
LongConditions ==
    /\ IsNum(Seen.prevRSI) /\ RLe(Seen.prevRSI, rsiOversold)
    /\ IsNum(Seen.currentRSI) /\ RLt(rsiOversold, Seen.currentRSI)
    /\ RLe(Seen.prevFastEma, Seen.prevSlowEma)
    /\ IsNum(Seen.currentFastEma) /\ IsNum(Seen.currentSlowEma)
    /\ RLt(Seen.currentSlowEma, Seen.currentFastEma)
ShortConditions ==
    /\ IsNum(Seen.prevRSI) /\ RLe(rsiOverbought, Seen.prevRSI)
    /\ IsNum(Seen.currentRSI) /\ RLt(Seen.currentRSI, rsiOverbought)
    /\ RLe(Seen.prevSlowEma, Seen.prevFastEma)
    /\ IsNum(Seen.currentFastEma) /\ IsNum(Seen.currentSlowEma)
    /\ RLt(Seen.currentFastEma, Seen.currentSlowEma)
Attempted(side) == \E j \in 1..Len(last.attempts) : last.attempts[j] = side

\* C29: on a tick whose window is full the strategy attempts a long entry
\* exactly when it holds no position, previous RSI <= oversold < current RSI,
\* previous fast EMA <= previous slow EMA and current fast EMA > current slow
\* EMA; a short entry exactly under the mirrored conditions; and no entry when
\* the window is not yet full or a current indicator value is NaN.
C29_EntryConditions ==
    [][ (calls' = calls + 1 /\ last'.op = "run") =>
          /\ (WindowFull' /\ CurrentValuesKnown') =>
                /\ Attempted("buy")' <=>
                      (strategyPosition = NoStrategyPosition /\ LongConditions')
                /\ Attempted("sell")' <=>
                      (strategyPosition = NoStrategyPosition /\ ShortConditions')
          /\ ~(WindowFull' /\ CurrentValuesKnown') => last'.attempts = <<>>
      ]_vars

\* a long entry was attempted
C29_Witness == last.op = "run" /\ last.attempts = <<"buy">> /\ LongConditions
\* the conditions of a long entry held while the window was not full
C29_NotFull == last.op = "run" /\ ~WindowFull /\ LongConditions /\ last.attempts = <<>>
\* the conditions of a short entry held while a position was open
C29_Held ==
    last.op = "run" /\ WindowFull /\ ShortConditions /\ strategyPosition # NoStrategyPosition
C29_Short == last.op = "run" /\ last.attempts = <<"sell">>

\* ------------------------------------------------------------------------
\* Properties of the two position records (Spec)
\* ------------------------------------------------------------------------
\* the strategy's position and the monitor's position for the symbol agree:
\* both none, or both open with the same side, entry price and amount
Mirrored ==
    IF strategyPosition = NoStrategyPosition THEN currentPositions[symbol] = NoPosition
    ELSE /\ currentPositions[symbol] # NoPosition
         /\ currentPositions[symbol].side = strategyPosition.side
         /\ currentPositions[symbol].entryPrice = strategyPosition.entryPrice
         /\ currentPositions[symbol].amount = strategyPosition.amount

\* C30: during a backtest the strategy's position and the monitor's position
\* for the symbol stay mirrors of each other: no step of the replay (the
\* monitor's exit, the strategy's run, the equity point) leaves one of them
\* open without the other, or with another side, entry price or amount.
C30_PositionsMirrored ==
    [][ (pc[1] # "idle" /\ Mirrored) => Mirrored' ]_vars

\* a candle was fully processed with the same position open on both sides
C30_Witness ==
    /\ last.op = "equity"
    /\ strategyPosition # NoStrategyPosition
    /\ Mirrored
\* a candle was fully processed after the monitor's exit cleared both
C30_Cleared ==
    /\ last.op = "equity"
    /\ tradeLog # <<>>
    /\ strategyPosition = NoStrategyPosition
    /\ Mirrored

\* ------------------------------------------------------------------------
\* Properties of the curve metrics (SpecCurves)
\* ------------------------------------------------------------------------
\* the balances of the curve the last call was given
BalanceAt(j) == last.curve[j].balance
\* the largest balance among the points 1..j
PeakAt(j) ==
    CHOOSE b \in {BalanceAt(m) : m \in 1..j} : \A m \in 1..j : RLe(BalanceAt(m), b)
DrawdownAt(j) == RDiv(RSub(PeakAt(j), BalanceAt(j)), PeakAt(j))
PeaksNonZero == \A j \in 1..Len(last.curve) : PeakAt(j) # Zero
IsMaxOfDrawdowns(v) ==
    /\ \E j \in 1..Len(last.curve) : v = DrawdownAt(j)
    /\ \A j \in 1..Len(last.curve) : RLe(DrawdownAt(j), v)
NonDecreasing ==
    \A j \in 1..Len(last.curve) - 1 : RLe(BalanceAt(j), BalanceAt(j + 1))
AllPositive == \A j \in 1..Len(last.curve) : RLt(Zero, BalanceAt(j))

\* C31: calculateMaxDrawdown returns the maximum over the points of
\* (peak - balance) / peak, the peak being the largest balance so far, and 0
\* for an empty curve; it is 0 for a non-decreasing curve and lies in [0, 1)
\* for a curve of positive balances.
C31_MaxDrawdown ==
    last.op = "calculateMaxDrawdown" =>
        /\ last.curve = <<>> => last.value = Zero
        /\ (last.curve # <<>> /\ PeaksNonZero) => IsMaxOfDrawdowns(last.value)
        /\ NonDecreasing => last.value = Zero
        /\ AllPositive => (RLe(Zero, last.value) /\ RLt(last.value, Num(1)))

\* the same without the curves that start at a balance of 0
C31_PeaksNonZero ==
    (last.op = "calculateMaxDrawdown" /\ PeaksNonZero) =>
        /\ last.curve = <<>> => last.value = Zero
        /\ last.curve # <<>> => IsMaxOfDrawdowns(last.value)
        /\ NonDecreasing => last.value = Zero
        /\ AllPositive => (RLe(Zero, last.value) /\ RLt(last.value, Num(1)))
\* a curve of positive balances with a drawdown
C31_Drawdown ==
    last.op = "calculateMaxDrawdown" /\ AllPositive /\ RLt(Zero, last.value)

\* the excess returns of the curve the last call was given: the return of each
\* step (0 after a balance of 0) minus the risk-free rate
ExcessReturns ==
    [j \in 1..(Len(last.curve) - 1) |->
        RSub(IF BalanceAt(j) = Zero THEN Zero
             ELSE RDiv(RSub(BalanceAt(j + 1), BalanceAt(j)), BalanceAt(j)),
             last.risk)]
MeanExcess == RDiv(SumOf(ExcessReturns), Num(Len(ExcessReturns)))
\* their population variance: the mean of the squared deviations from the mean
VarianceOfExcess ==
    RDiv(SumOf([j \in 1..Len(ExcessReturns) |->
                   RMul(RSub(ExcessReturns[j], MeanExcess),
                        RSub(ExcessReturns[j], MeanExcess))]),
         Num(Len(ExcessReturns)))

\* C32: calculateSharpeRatio is the mean of the excess returns divided by
\* their population standard deviation; when that deviation is 0 (all returns
\* equal) it is +infinity for a positive mean excess return and 0 otherwise.
C32_SharpeRatio ==
    (last.op = "calculateSharpeRatio" /\ Len(last.curve) >= 2) =>
        last.value = IF VarianceOfExcess = Zero
                     THEN IF RLt(Zero, MeanExcess) THEN PosInf ELSE Zero
                     ELSE OverRoot(MeanExcess, VarianceOfExcess)

\* the code agrees with the claim where the rate is 0 and the returns are not
\* all equal but average to 0
C32_Agrees ==
    /\ last.op = "calculateSharpeRatio" /\ Len(last.curve) >= 2
    /\ VarianceOfExcess # Zero
    /\ last.value = OverRoot(MeanExcess, VarianceOfExcess)

\* ------------------------------------------------------------------------
\* Properties of the trade records (SpecClock)
\* ------------------------------------------------------------------------
\* C17: no two records of the trade log have the same id, whatever trades are
\* executed and however the wall clock behaves, several trades in the same
\* millisecond included.
C17_UniqueIds ==
    \A a, b \in 1..Len(tradeLog) : a # b => tradeLog[a].id # tradeLog[b].id

\* three trades are logged, two of them made at the same clock reading
C17_Witness ==
    /\ Len(tradeLog) = 3
    /\ tradeLog[1].datetime = tradeLog[2].datetime
    /\ tradeLog[3].datetime # tradeLog[2].datetime

\* ------------------------------------------------------------------------
\* Properties of repeated replays (SpecRuns)
\* ------------------------------------------------------------------------
WithoutIds(log) == [j \in 1..Len(log) |-> [log[j] EXCEPT !.id = <<>>]]

C18_CooldownGatesEntries ==
    [][ (calls' = calls + 1 /\ last.op = "run" /\ last.attempts # <<>>
         /\ last'.op = "run" /\ last'.at - last.at < cooldownPeriod) =>
          last'.attempts = <<>>
      ]_vars

ValidCandle(c) ==
    /\ c.kind = "object"
    /\ IsNum(c.open) /\ IsNum(c.high) /\ IsNum(c.low) /\ IsNum(c.close)
    /\ RLe(c.low, RMin(c.open, c.close))
    /\ RLe(RMax(c.open, c.close), c.high)

\* C19: run called with a candle that violates low <= min(open, close) or
\* high >= max(open, close), or is null, or has missing or non-numeric
\* fields, returns without raising, executes no trade, and leaves the
\* strategy's history and position unchanged.
C19_InvalidCandleRejected ==
    [][ (calls' = calls + 1 /\ last'.op = "run" /\ ~ValidCandle(last'.candle[1])) =>
          /\ ~last'.raised
          /\ tradeLog' = tradeLog
          /\ historicalData' = historicalData
          /\ strategyPosition' = strategyPosition
      ]_vars

\* ------------------------------------------------------------------------
\* Properties of initialization and of concurrent callers
\* ------------------------------------------------------------------------
\* C14: when the date filter leaves no candle, initializeBacktester fails
\* instead of completing, so no run starts on an empty candle set.
C14_EmptyRangeFails == lastInit = "ok" => backtestData # <<>>

\* C15: runBacktest replays candles and returns metrics only if the most
\* recent initializeBacktester call completed successfully: before any
\* initialization or after a failed one it replays nothing, with no data or
\* strategy instance left from an earlier initialization, and returns nothing.
C15_RunNeedsInit ==
    [][ (last'.caller = 1
         /\ last'.op \in {"monitorAndExitPositions", "run", "equity", "return"}) =>
          lastInit = "ok"
      ]_vars

\* the curve of a run made alone on the candles: the seed point, then one
\* point per candle in order
CurveOfOneRun(curve, data) ==
    /\ Len(curve) = Len(data) + 1
    /\ \A k \in 1..Len(data) : curve[k + 1].timestamp = data[k].timestamp

\* C13: two runs whose calls interleave at the awaits each return what they
\* return when run alone, no balance, log, curve, data or instance being
\* shared: in particular each returns its metrics from a curve holding the
\* seed point and one point for each of its candles, in order.
C13_RunsIsolated ==
    [][ last'.op = "return" => CurveOfOneRun(equityCurve', backtestData') ]_vars

\* ------------------------------------------------------------------------
\* Termination of the replay (SpecFair)
\* ------------------------------------------------------------------------
\* C16: once runBacktest has started on a non-empty candle list, every candle
\* is processed exactly once in ascending order and the run ends by returning
\* metrics, whatever rejected trades, NaN indicator values or triggered exits
\* occur on the way: no step of the loop raises, the curve returned holds one
\* point per candle in order, and every started run returns.
C16_EveryCandleThenMetrics ==
    /\ [][ /\ last'.caller = 1 => ~last'.raised
           /\ last'.op = "equity" => (last'.i = i[1] /\ Len(equityCurve) = i[1])
           /\ last'.op = "return" =>
                 /\ i[1] = Len(backtestData)
                 /\ CurveOfOneRun(equityCurve, backtestData)
         ]_vars
    /\ (last.op = "runBacktest" ~> last.op = "return")

\* a run returned after an exit was triggered and executed on the way
C16_Witness ==
    /\ last.op = "return"
    /\ Len(tradeLog) = 1
    /\ tradeLog[1].price = backtestData[Len(backtestData)].close

====
